---- MODULE Spec2Model ----
(***************************************************************************)
(* Model of the EGG-Chain chain-state engine (egg-chain/src/state.rs) over *)
(* the chain store (egg-db/src/store.rs), and of the peer protocol machine *)
(* (egg-net/src/peer.rs).  The store is modelled as the partial maps it    *)
(* keeps (meta, hdr, blk, bmeta, child, canon, tip); the engine operations *)
(* are operators on a store record that return the new record together     *)
(* with the Rust Result (err) and return value (ret).  The peer machine is *)
(* one record with the fields of the PeerMachine struct.                   *)
(***************************************************************************)
EXTENDS Integers, Sequences, FiniteSets, TLC

\* ------------------------------------------------------------ bounds
\* Width of a hash in bits (the program uses 256).
HashBits == 6
\* Largest `max` argument tried for get_headers_after.
MaxReq == 3
\* Ingest calls are made while the store holds at most this many headers.
MaxStored == 4
\* The clock does not run past this many seconds.
MaxNow == 65
\* BlockNotFound is delivered for an id while its counter is below this.
MaxRepeat == 3
\* The length of the short header batch a remote side may send.
MaxBatch == 2
\* A syncer takes at most this many non-empty header batches.
MaxBatches == 2
\* The small batch size of a syncer.
SyncBatch == 7
\* add_child calls in one behaviour
MaxCalls == 4
\* leaves in one merkle tree
MaxLeaves == 5
\* mempool calls in one behaviour
MaxPoolCalls == 5
\* blocks mined on top of genesis
MaxMined == 2
\* seconds a responder may let the syncer's Hello wait
MaxSlowStart == 1
\* the oldest age of an Instant that is told apart from older ones
AgeCap == 30

\* ------------------------------------------------------------ hashes
Zero == 0
TopBit == 2 ^ (HashBits - 1)
Hash == 0 .. (2 ^ HashBits - 1)

\* Hash256 arrays compare lexicographically by byte, which on fixed-width
\* big-endian values is the numeric order.
hash_lt_flipped(a, b) == a > b
hash_lt(a, b) == a < b

RECURSIVE lzb_from(_, _)
lzb_from(h, bit) ==
  IF bit = 0 THEN 0
  ELSE IF h >= 2 ^ (bit - 1) THEN 0
  ELSE 1 + lzb_from(h, bit - 1)

leading_zero_bits(h) == lzb_from(h, HashBits)

\* ------------------------------------------------------------ types
BlockHeader(parent, height, nonce, merkle_root, bits) ==
  [parent |-> parent, height |-> height, timestamp_utc |-> 1, nonce |-> nonce,
   merkle_root |-> merkle_root, pow_difficulty_bits |-> bits]

Transaction(id, payload) == [id |-> id, payload |-> payload]

Block(header, txs) == [header |-> header, txs |-> txs]

ChainTip(height, hash) == [height |-> height, hash |-> hash]

BlockMeta(parent, height) == [parent |-> parent, height |-> height]

Min(a, b) == IF a < b THEN a ELSE b

\* saturating u64 arithmetic at the magnitudes the model reaches
saturating_sub1(h) == IF h = 0 THEN 0 ELSE h - 1
saturating_add1(h) == h + 1

\* ------------------------------------------------------------ inputs
\* The hash primitive is external; it is modelled by a table from the headers
\* of the input universe to hash values, injective except for one colliding
\* pair (hA, hA2).  Ids are chosen so that hash order is unrelated to height.
GenesisHeader == BlockHeader(Zero, 0, 0, Zero, 0)
GenesisId == 7

\* tx_id_from_payload: injective table on the payloads used.
tx_id_from_payload(payload) == IF payload = 1 THEN 15 ELSE 14

Tx1 == Transaction(tx_id_from_payload(1), 1)
Tx2 == Transaction(tx_id_from_payload(2), 2)
TxBadId == Transaction(3, 2)

\* Chain specs: the one the store is initialised with, one with another
\* genesis timestamp, one with another chain id, and one that fails validation.
ChainSpec(spec_version, chain_id, timestamp_utc, bits, nonce) ==
  [spec_version |-> spec_version, chain_name |-> "EGG-MAINNET",
   chain_id |-> chain_id, timestamp_utc |-> timestamp_utc,
   pow_difficulty_bits |-> bits, nonce |-> nonce]

MainSpec == ChainSpec(1, 1, 1, 0, 0)
OtherTimeSpec == ChainSpec(1, 1, 2, 0, 0)
OtherChainSpec == ChainSpec(1, 2, 1, 0, 0)
InvalidSpec == ChainSpec(0, 1, 1, 0, 0)

SpecInputs == { MainSpec, OtherTimeSpec, OtherChainSpec, InvalidSpec }

\* hash_chainspec: injective table on the chain specs used.
hash_chainspec(spec) ==
  IF spec = MainSpec THEN 21
  ELSE IF spec = OtherTimeSpec THEN 22
  ELSE IF spec = OtherChainSpec THEN 23
  ELSE 24

ChainMeta(chain_id, genesis_id, chainspec_hash) ==
  [chain_id |-> chain_id, genesis_id |-> genesis_id,
   chainspec_hash |-> chainspec_hash]

validate_chainspec(spec) ==
  /\ spec.spec_version # 0
  /\ spec.chain_name # ""
  /\ spec.timestamp_utc > 0

genesis_header(spec) ==
  [parent |-> Zero, height |-> 0, timestamp_utc |-> spec.timestamp_utc,
   nonce |-> spec.nonce, merkle_root |-> Zero,
   pow_difficulty_bits |-> spec.pow_difficulty_bits]

\* main chain  G - A - B - Z - X, fork C at A, second chain G - P - Q - R
hA == BlockHeader(GenesisId, 1, 1, Zero, 0)
hB == BlockHeader(3, 2, 1, Zero, 0)
hZ == BlockHeader(11, 3, 1, Zero, 0)
hX == BlockHeader(4, 4, 1, Zero, 0)
hC == BlockHeader(3, 2, 2, Zero, 0)
hP == BlockHeader(GenesisId, 1, 2, 15, 0)
hQ == BlockHeader(10, 2, 1, Zero, 0)
hR == BlockHeader(2, 3, 1, Zero, 0)
\* W declares height 3 under parent A (height 1)
hW == BlockHeader(3, 3, 3, Zero, 0)
\* PoW-invalid: one difficulty bit, the hash has its top bit set
hBadPow == BlockHeader(GenesisId, 1, 4, Zero, 1)
\* merkle root does not match the (empty) transaction list
hBadMerkle == BlockHeader(GenesisId, 1, 5, 5, 0)
\* carries a transaction whose id is not the hash of its payload
hBadTx == BlockHeader(GenesisId, 1, 6, 3, 0)
\* height 0 but not the genesis of this chain
hFakeGenesis == BlockHeader(Zero, 0, 9, Zero, 0)
\* a header different from A whose hash collides with A's
hA2 == BlockHeader(GenesisId, 1, 7, Zero, 0)

\* headers announced by a peer whose blocks it then fails to deliver, one
\* more than the limit on distinct not-found ids
NumNf == 17
hN(i) == BlockHeader(Zero, i, 100 + i, Zero, 0)

\* the chain a responder node holds above genesis: SyncLen empty blocks, each
\* the child of the one before, more of them than the download window
SyncLen == 18
SId(i) ==
  IF i = 0 THEN GenesisId
  ELSE IF i <= 13 THEN 24 + i
  ELSE IF i <= 15 THEN 25 + i
  ELSE 42 + i
hS(i) == BlockHeader(SId(i - 1), i, 50 + i, Zero, 0)
\* a header that is not on that chain
hOff == BlockHeader(GenesisId, 1, 99, Zero, 0)

HeaderTable ==
  { <<GenesisHeader, GenesisId>>, <<hA, 3>>, <<hB, 11>>, <<hZ, 4>>, <<hX, 12>>,
    <<hC, 1>>, <<hP, 10>>, <<hQ, 2>>, <<hR, 9>>, <<hW, 13>>,
    <<hBadPow, TopBit + 6>>, <<hBadMerkle, 5>>, <<hBadTx, 6>>,
    <<hFakeGenesis, 8>>, <<hA2, 3>>,
    <<genesis_header(OtherTimeSpec), 14>> }
  \cup { <<hN(i), 40 + i>> : i \in 1 .. NumNf }
  \cup { <<hS(i), SId(i)>> : i \in 1 .. SyncLen }
  \cup { <<hOff, 20>> }

\* The hash of a header that a miner puts together: the top bit is set for
\* an even nonce and clear for an odd one, so that a search over NoncePeriod
\* nonces sees every hash the header can get.
NoncePeriod == 2
mined_header_hash(header) ==
  LET low == (header.merkle_root + 5 * header.height
              + 3 * header.pow_difficulty_bits) % TopBit
  IN IF header.nonce % NoncePeriod = 0 THEN TopBit + low ELSE low

hash_header(header) ==
  IF \E e \in HeaderTable : e[1] = header
  THEN (CHOOSE e \in HeaderTable : e[1] = header)[2]
  ELSE mined_header_hash(header)

header_id(header) == hash_header(header)

pow_valid(header) ==
  leading_zero_bits(header_id(header)) >= header.pow_difficulty_bits

genesis_id(spec) == header_id(genesis_header(spec))

expected_meta(spec) ==
  ChainMeta(spec.chain_id, genesis_id(spec), hash_chainspec(spec))

\* blocks that extend genesis correctly (every height is parent height + 1)
ValidBlocks ==
  { Block(hA, <<>>), Block(hB, <<>>), Block(hZ, <<>>), Block(hX, <<>>),
    Block(hC, <<>>), Block(hP, <<Tx1>>), Block(hQ, <<>>), Block(hR, <<>>) }

BlockInputs ==
  { Block(hA, <<>>), Block(hB, <<>>), Block(hZ, <<>>), Block(hC, <<>>),
    Block(hP, <<Tx1>>), Block(hQ, <<>>),
    Block(GenesisHeader, <<>>), Block(hW, <<>>), Block(hBadPow, <<>>),
    Block(hBadMerkle, <<>>), Block(hBadTx, <<TxBadId>>),
    Block(hFakeGenesis, <<>>), Block(hA2, <<>>) }

HeaderInputs == { b.header : b \in BlockInputs }

\* blocks ingested around a re-open
OpenBlocks == { Block(hA, <<>>), Block(hB, <<>>), Block(hZ, <<>>), Block(hC, <<>>) }

\* blocks handed to two sessions
SessionBlocks ==
  { Block(hA, <<>>), Block(hB, <<>>), Block(hC, <<>>), Block(hP, <<Tx1>>),
    Block(hQ, <<>>) }

\* ------------------------------------------------------------ merkle
merkle_parent(left, right) == (left * 5 + right * 3 + 1) % (2 ^ HashBits)

RECURSIVE merkle_next_layer_promote(_)
merkle_next_layer_promote(layer) ==
  IF layer = <<>> THEN <<>>
  ELSE IF Len(layer) = 1 THEN << layer[1] >>
  ELSE << merkle_parent(layer[1], layer[2]) >>
       \o merkle_next_layer_promote(SubSeq(layer, 3, Len(layer)))

RECURSIVE merkle_next_layer(_)
merkle_next_layer(layer) ==
  IF layer = <<>> THEN <<>>
  ELSE IF Len(layer) = 1 THEN << merkle_parent(layer[1], layer[1]) >>
  ELSE << merkle_parent(layer[1], layer[2]) >>
       \o merkle_next_layer(SubSeq(layer, 3, Len(layer)))

RECURSIVE merkle_reduce(_)
merkle_reduce(layer) ==
  IF Len(layer) > 1 THEN merkle_reduce(merkle_next_layer(layer)) ELSE layer[1]

merkle_root_txids(txids) ==
  IF txids = <<>> THEN Zero ELSE merkle_reduce(txids)

validate_tx_id(tx) == tx.id = tx_id_from_payload(tx.payload)

\* Ok(root) or Err(InvalidTxId)
compute_merkle_root_from_txs(txs) ==
  IF \E i \in 1 .. Len(txs) : ~validate_tx_id(txs[i])
  THEN [err |-> "InvalidTxId", ret |-> Zero]
  ELSE [err |-> "none", ret |-> merkle_root_txids([i \in 1 .. Len(txs) |-> txs[i].id])]

verify_block_merkle(block) ==
  LET expected == compute_merkle_root_from_txs(block.txs)
  IN IF expected.err # "none" THEN expected.err
     ELSE IF block.header.merkle_root # expected.ret THEN "MerkleMismatch"
     ELSE "none"

\* ------------------------------------------------------------ state
VARIABLES
  smeta,      \* store meta: <<>> when absent, else << ChainMeta >>
  hdr,        \* store hdr:  id -> header
  blk,        \* store blk:  id -> block
  bmeta,      \* store bmeta: id -> BlockMeta
  children,   \* store child: parent -> sequence of child ids
  canon,      \* store canon: height -> hash
  stip,       \* store tip:  the persisted ChainTip
  tip,        \* ChainState.tip, the in-memory tip
  tip2,       \* ChainState.tip of a second instance opened over the same store
  last,       \* the last call: [op, id, out]
  mstLog      \* the maybe_set_tip calls made by the last call, in order

storeVars == <<hdr, blk, bmeta, children, canon, stip>>
chainVars == <<smeta, hdr, blk, bmeta, children, canon, stip, tip, tip2, last, mstLog>>

\* The engine state as one record, threaded through the operators below.
\* has_tip tells whether the store holds a tip; it does from open_or_init on.
Cur ==
  [meta |-> smeta, hdr |-> hdr, blk |-> blk, bmeta |-> bmeta,
   children |-> children, canon |-> canon, has_tip |-> TRUE, stip |-> stip,
   tip |-> tip, log |-> <<>>]

\* The same store seen by the second instance.
Cur2 == [Cur EXCEPT !.tip = tip2]

\* A store with nothing written yet (stip and tip are not read while
\* has_tip is FALSE).
EmptyStore ==
  [meta |-> <<>>, hdr |-> <<>>, blk |-> <<>>, bmeta |-> <<>>,
   children |-> <<>>, canon |-> <<>>, has_tip |-> FALSE,
   stip |-> ChainTip(0, Zero), tip |-> ChainTip(0, Zero), log |-> <<>>]

Ok(s, ret) == [s |-> s, err |-> "none", ret |-> ret]
Err(s, e) == [s |-> s, err |-> e, ret |-> FALSE]

\* ------------------------------------------------------------ store (egg-db)
has_header_never(s, id) == FALSE
has_header(s, id) == id \in DOMAIN s.hdr
has_block_by_header(s, id) == id \in DOMAIN s.hdr
has_block_never(s, id) == FALSE
has_block(s, id) == id \in DOMAIN s.blk
put_header(s, id, header) == [s EXCEPT !.hdr = (id :> header) @@ @]
put_block(s, id, block) == [s EXCEPT !.blk = (id :> block) @@ @]
put_block_meta(s, id, meta) == [s EXCEPT !.bmeta = (id :> meta) @@ @]
set_canon_hash(s, height, hash) == [s EXCEPT !.canon = (height :> hash) @@ @]
set_tip(s, t) == [s EXCEPT !.stip = t, !.has_tip = TRUE]
set_meta(s, m) == [s EXCEPT !.meta = << m >>]

\* The value under a child: key: the magic, the count, the ids. The count
\* is the length (try_into u32 cannot fail on lists this short).
encode_children(cs) == [magic |-> "EGG_CH00", n |-> Len(cs), hashes |-> cs]

decode_children(bytes) ==
  IF bytes.magic # "EGG_CH00" THEN [err |-> "Decode", ret |-> <<>>]
  ELSE IF Len(bytes.hashes) # bytes.n THEN [err |-> "Decode", ret |-> <<>>]
  ELSE [err |-> "none", ret |-> bytes.hashes]

\* Every value under a child: key was written by add_child, so the decode
\* does not fail and the list is returned.
get_children(s, parent) ==
  IF parent \in DOMAIN s.children
  THEN decode_children(s.children[parent]).ret
  ELSE <<>>

add_child_always_push(s, parent, child) ==
  [s EXCEPT !.children =
     (parent :> encode_children(Append(get_children(s, parent), child))) @@ @]

add_child(s, parent, child) ==
  LET cs == get_children(s, parent)
  IN IF \E i \in 1 .. Len(cs) : cs[i] = child
     THEN s
     ELSE [s EXCEPT !.children =
             (parent :> encode_children(Append(cs, child))) @@ @]

\* ------------------------------------------------------------ engine helpers
\* The `?` operator is written LET rest(r) == IF r.err # "none" THEN r ELSE ...
\* IN rest(call): an Err result is returned at once, an Ok result is handed to
\* the rest of the function.
ensure_block_meta_from_header(s, id, header) ==
  IF id \in DOMAIN s.bmeta
  THEN Ok(s, s.bmeta[id])
  ELSE Ok(put_block_meta(s, id, BlockMeta(header.parent, header.height)),
          BlockMeta(header.parent, header.height))

must_block_meta(s, id) ==
  IF id \in DOMAIN s.bmeta THEN Ok(s, s.bmeta[id])
  ELSE Err(s, "MissingBlockMeta")

must_header(s, id) ==
  IF ~has_header(s, id) THEN Err(s, "MissingHeader")
  ELSE Ok(s, s.hdr[id])

\* bootstrap_indexes_from_tip: the loop from the tip down to genesis
RECURSIVE bootstrap_walk(_, _)
bootstrap_walk(s, cur) ==
  LET rest(h) ==
        IF h.err # "none" THEN h
        ELSE LET rest_m(em) ==
                   IF em.err # "none" THEN em
                   ELSE IF h.ret.height = 0
                   THEN Ok(set_canon_hash(em.s, h.ret.height, cur), TRUE)
                   ELSE bootstrap_walk(
                          add_child(set_canon_hash(em.s, h.ret.height, cur),
                                    h.ret.parent, cur),
                          h.ret.parent)
             IN rest_m(ensure_block_meta_from_header(s, cur, h.ret))
  IN rest(must_header(s, cur))

bootstrap_indexes_from_tip(s, t) ==
  IF ~( t.hash \notin DOMAIN s.bmeta \/ t.height \notin DOMAIN s.canon )
  THEN Ok(s, TRUE)
  ELSE bootstrap_walk(s, t.hash)

open_or_init_unchecked(store, spec) ==
  IF store.has_tip
  THEN bootstrap_indexes_from_tip([store EXCEPT !.tip = store.stip], store.stip)
  ELSE Err(store, "GenesisIdMismatch")

\* open_or_init(store, spec): Ok carries the new ChainState (its tip is the
\* field tip of the record)
open_or_init(store, spec) ==
  IF ~validate_chainspec(spec) THEN Err(store, "ChainSpecInvalid")
  ELSE IF store.has_tip
  THEN IF store.meta = <<>> THEN Err(store, "MetaMissing")
       ELSE IF store.meta[1] # expected_meta(spec) THEN Err(store, "MetaMismatch")
       ELSE bootstrap_indexes_from_tip([store EXCEPT !.tip = store.stip],
                                       store.stip)
  ELSE IF header_id(genesis_header(spec)) # expected_meta(spec).genesis_id
       THEN Err(store, "GenesisIdMismatch")
  ELSE Ok([ set_tip(
              set_canon_hash(
                put_block_meta(
                  put_block(
                    put_header(set_meta(store, expected_meta(spec)),
                               genesis_id(spec), genesis_header(spec)),
                    genesis_id(spec), Block(genesis_header(spec), <<>>)),
                  genesis_id(spec),
                  BlockMeta(genesis_header(spec).parent,
                            genesis_header(spec).height)),
                0, genesis_id(spec)),
              ChainTip(0, genesis_id(spec)))
            EXCEPT !.tip = ChainTip(0, genesis_id(spec)) ],
          TRUE)

\* reorg_canonical, first loop (and second, with the roles swapped):
\* while h > target { m = must_block_meta(x)?; x = m.parent; h -= 1 }
RECURSIVE reorg_climb(_, _, _, _)
reorg_climb(s, x, h, target) ==
  IF h > target
  THEN LET rest(m) ==
             IF m.err # "none" THEN m
             ELSE reorg_climb(s, m.ret.parent, saturating_sub1(h), target)
       IN rest(must_block_meta(s, x))
  ELSE Ok(s, [x |-> x, h |-> h])

\* third loop: while a != b { climb both one step }; yields ancestor_height
RECURSIVE reorg_meet(_, _, _, _)
reorg_meet(s, a, b, ha) ==
  IF a # b
  THEN LET rest_a(ma) ==
             IF ma.err # "none" THEN ma
             ELSE LET rest_b(mb) ==
                        IF mb.err # "none" THEN mb
                        ELSE reorg_meet(s, ma.ret.parent, mb.ret.parent,
                                        saturating_sub1(ha))
                  IN rest_b(must_block_meta(s, b))
       IN rest_a(must_block_meta(s, a))
  ELSE Ok(s, ha)

\* fourth loop: collect (height, hash) from the new tip down to the ancestor
RECURSIVE reorg_path(_, _, _, _)
reorg_path(s, cur, ancestor_height, path) ==
  LET rest(m) ==
        IF m.err # "none" THEN m
        ELSE IF m.ret.height = ancestor_height
        THEN Ok(s, path)
        ELSE reorg_path(s, m.ret.parent, ancestor_height,
                        Append(path, <<m.ret.height, cur>>))
  IN rest(must_block_meta(s, cur))

\* path.reverse(); for (h, x) in path { set_canon_hash(h, x) }
RECURSIVE reorg_write(_, _, _)
reorg_write(s, path, i) ==
  IF i = 0 THEN s
  ELSE reorg_write(set_canon_hash(s, path[i][1], path[i][2]), path, i - 1)

reorg_canonical(s, old_tip, new_tip) ==
  LET rest_a(ca) ==
        IF ca.err # "none" THEN ca
        ELSE LET rest_b(cb) ==
                   IF cb.err # "none" THEN cb
                   ELSE LET rest_anc(mt) ==
                              IF mt.err # "none" THEN mt
                              ELSE LET rest_path(pt) ==
                                         IF pt.err # "none" THEN pt
                                         ELSE Ok(reorg_write(s, pt.ret, Len(pt.ret)), TRUE)
                                   IN rest_path(reorg_path(s, new_tip.hash, mt.ret, <<>>))
                        IN rest_anc(reorg_meet(s, ca.ret.x, cb.ret.x, ca.ret.h))
             IN rest_b(reorg_climb(s, old_tip.hash, old_tip.height, ca.ret.h))
  IN rest_a(reorg_climb(s, new_tip.hash, new_tip.height, old_tip.height))

\* One record per maybe_set_tip call: the candidate, both tips and the
\* canonical index before and after, and whether the candidate was found
\* better.
LogCall(s0, r, hash, height, better) ==
  [r EXCEPT !.s.log = Append(@, [hash |-> hash, height |-> height,
                                  before |-> s0.tip, sbefore |-> s0.stip,
                                  after |-> r.s.tip, safter |-> r.s.stip,
                                  cbefore |-> s0.canon, cafter |-> r.s.canon,
                                  better |-> better])]

maybe_set_tip_any_tie(s, candidate_hash, candidate_height) ==
  IF ~( candidate_height >= s.tip.height )
  THEN LogCall(s, Ok(s, FALSE), candidate_hash, candidate_height, FALSE)
  ELSE LogCall(s,
         reorg_canonical(
           [set_tip(s, ChainTip(candidate_height, candidate_hash))
              EXCEPT !.tip = ChainTip(candidate_height, candidate_hash)],
           s.tip, ChainTip(candidate_height, candidate_hash)),
         candidate_hash, candidate_height, TRUE)

maybe_set_tip(s, candidate_hash, candidate_height) ==
  IF ~( IF candidate_height > s.tip.height THEN TRUE
        ELSE IF candidate_height = s.tip.height
             THEN hash_lt(candidate_hash, s.tip.hash)
             ELSE FALSE )
  THEN LogCall(s, Ok(s, FALSE), candidate_hash, candidate_height, FALSE)
  ELSE LogCall(s,
         reorg_canonical(
           [set_tip(s, ChainTip(candidate_height, candidate_hash))
              EXCEPT !.tip = ChainTip(candidate_height, candidate_hash)],
           s.tip, ChainTip(candidate_height, candidate_hash)),
         candidate_hash, candidate_height, TRUE)

try_connect_child(s, parent, child) ==
  IF ~has_header(s, child) \/ ~has_block(s, child) THEN Ok(s, FALSE)
  ELSE IF s.hdr[child].parent # parent THEN Ok(s, FALSE)
  ELSE IF ~has_header(s, parent) THEN Err(s, "Store")
  ELSE LET rest_p(pm) ==
             IF pm.err # "none" THEN pm
             ELSE LET rest_c(cm) ==
                        IF cm.err # "none" THEN cm
                        ELSE IF \/ cm.ret.height # saturating_add1(pm.ret.height)
                                \/ s.hdr[child].height # saturating_add1(pm.ret.height)
                        THEN Err(cm.s, "HeightNotParentPlusOne")
                        ELSE LET rest_t(m) ==
                                   IF m.err # "none" THEN m ELSE Ok(m.s, TRUE)
                             IN rest_t(maybe_set_tip(cm.s, child, cm.ret.height))
                  IN rest_c(ensure_block_meta_from_header(pm.s, child, s.hdr[child]))
       IN rest_p(ensure_block_meta_from_header(s, parent, s.hdr[parent]))

\* connect_descendants_from: the BFS queue loop and, inside it, the loop over
\* the children of the popped parent.
RECURSIVE connect_children(_, _, _, _, _)
connect_children(s, p, cs, i, q) ==
  IF i > Len(cs) THEN Ok(s, q)
  ELSE LET rest(r) ==
             IF r.err # "none" THEN r
             ELSE connect_children(r.s, p, cs, i + 1,
                                   IF r.ret THEN Append(q, cs[i]) ELSE q)
       IN rest(try_connect_child(s, p, cs[i]))

RECURSIVE connect_queue(_, _)
connect_queue(s, q) ==
  IF q = <<>> THEN Ok(s, TRUE)
  ELSE LET rest(r) ==
             IF r.err # "none" THEN r ELSE connect_queue(r.s, r.ret)
       IN rest(connect_children(s, Head(q), get_children(s, Head(q)), 1, Tail(q)))

connect_descendants_none(s, root) == Ok(s, TRUE)
connect_descendants_from(s, root) == connect_queue(s, <<root>>)

\* ------------------------------------------------------------ ingest
\* The part of ingest_block after the block is persisted (both cases): orphan
\* check, height check, fork choice, descendants.
connect_pipeline(s, id, block) ==
  IF ~has_header(s, block.header.parent) THEN Ok(s, "StoredOrphan")
  ELSE LET rest_p(pm) ==
             IF pm.err # "none" THEN pm
             ELSE IF block.header.height # saturating_add1(pm.ret.height)
             THEN Err(pm.s, "HeightNotParentPlusOne")
             ELSE LET rest_t(m) ==
                        IF m.err # "none" THEN m
                        ELSE LET rest_d(d) ==
                                   IF d.err # "none" THEN d
                                   ELSE Ok(d.s, IF m.ret THEN "NewTip"
                                                ELSE "StoredConnected")
                             IN rest_d(connect_descendants_from(m.s, id))
                  IN rest_t(maybe_set_tip(pm.s, id, block.header.height))
       IN rest_p(ensure_block_meta_from_header(
                   s, block.header.parent, s.hdr[block.header.parent]))

\* ingest_block once the block has passed the merkle and PoW checks
ingest_checked_block(s, block, id) ==
  IF block.header.height = 0
  THEN IF id # GenesisId THEN Err(s, "GenesisIdMismatch")
       ELSE Ok(s, "AlreadyKnown")
  ELSE IF has_header(s, id)
       THEN IF has_block(s, id) THEN Ok(s, "AlreadyKnown")
            ELSE IF s.hdr[id] # block.header THEN Err(s, "HeaderMismatch")
            ELSE LET rest(em) ==
                       IF em.err # "none" THEN em
                       ELSE connect_pipeline(
                              add_child(em.s, block.header.parent, id), id, block)
                 IN rest(ensure_block_meta_from_header(
                           put_block(s, id, block), id, block.header))
  ELSE connect_pipeline(
         add_child(
           put_block_meta(
             put_block(put_header(s, id, block.header), id, block),
             id, BlockMeta(block.header.parent, block.header.height)),
           block.header.parent, id),
         id, block)

ingest_block(s, block) ==
  IF verify_block_merkle(block) # "none" THEN Err(s, verify_block_merkle(block))
  ELSE IF ~pow_valid(block.header) THEN Err(s, "InvalidPow")
  ELSE ingest_checked_block(s, block, header_id(block.header))

\* ingest_header once the header has passed the PoW check
ingest_checked_header_no_child(s, header, id) ==
  IF header.height = 0
  THEN IF id # GenesisId THEN Err(s, "GenesisIdMismatch")
       ELSE Ok(s, "AlreadyKnown")
  ELSE IF has_header(s, id) THEN Ok(s, "AlreadyKnown")
  ELSE IF header.parent \notin DOMAIN s.hdr \cup {id}
       THEN Ok(put_block_meta(put_header(s, id, header), id,
                              BlockMeta(header.parent, header.height)),
               "StoredOrphan")
  ELSE IF header.height # saturating_add1(s.hdr[header.parent].height)
       THEN Err(s, "HeightNotParentPlusOne")
       ELSE Ok(put_block_meta(put_header(s, id, header), id,
                              BlockMeta(header.parent, header.height)),
               "StoredConnected")

ingest_checked_header(s, header, id) ==
  IF header.height = 0
  THEN IF id # GenesisId THEN Err(s, "GenesisIdMismatch")
       ELSE Ok(s, "AlreadyKnown")
  ELSE IF has_header(s, id) THEN Ok(s, "AlreadyKnown")
  ELSE IF header.parent \notin DOMAIN s.hdr \cup {id}
       THEN Ok(add_child(
                 put_block_meta(put_header(s, id, header), id,
                                BlockMeta(header.parent, header.height)),
                 header.parent, id),
               "StoredOrphan")
  ELSE LET rest(pm) ==
             IF pm.err # "none" THEN pm
             ELSE IF header.height # saturating_add1(pm.ret.height)
             THEN Err(pm.s, "HeightNotParentPlusOne")
             ELSE Ok(pm.s, "StoredConnected")
       IN rest(ensure_block_meta_from_header(
                 add_child(
                   put_block_meta(put_header(s, id, header), id,
                                  BlockMeta(header.parent, header.height)),
                   header.parent, id),
                 header.parent,
                 put_header(s, id, header).hdr[header.parent]))

ingest_header_connecting(s, header) ==
  ingest_block(s, Block(header, <<>>))
ingest_header(s, header) ==
  IF ~pow_valid(header) THEN Err(s, "InvalidPow")
  ELSE ingest_checked_header(s, header, header_id(header))

\* ------------------------------------------------------------ queries
\* get_headers_after: the scan for start_hash over heights 0..=tip.height
\* (-1 stands for None)
RECURSIVE find_start(_, _, _)
find_start(s, start_hash, h) ==
  IF h > s.tip.height THEN -1
  ELSE IF h \in DOMAIN s.canon /\ s.canon[h] = start_hash THEN h
  ELSE find_start(s, start_hash, h + 1)

\* ... and the collecting loop
RECURSIVE collect_headers(_, _, _, _)
collect_headers(s, cur_h, max, out) ==
  IF cur_h <= s.tip.height /\ Len(out) < max
  THEN IF cur_h \notin DOMAIN s.canon THEN Ok(s, out)
       ELSE IF s.canon[cur_h] \notin DOMAIN s.hdr THEN Err(s, "Store")
       ELSE collect_headers(s, saturating_add1(cur_h), max,
                            Append(out, s.hdr[s.canon[cur_h]]))
  ELSE Ok(s, out)

get_headers_after(s, start_hash, max) ==
  IF max = 0 THEN Ok(s, <<>>)
  ELSE IF find_start(s, start_hash, 0) = -1 THEN Ok(s, <<>>)
  ELSE collect_headers(s, saturating_add1(find_start(s, start_hash, 0)), max, <<>>)

RECURSIVE validate_from(_, _)
validate_from(s, cur) ==
  IF ~has_header(s, cur) THEN Err(s, "MissingHeader")
  ELSE IF ~has_block(s, cur) THEN Err(s, "MissingBlock")
  ELSE IF cur \notin DOMAIN s.bmeta THEN Err(s, "MissingBlockMeta")
  ELSE IF \/ s.bmeta[cur].parent # s.hdr[cur].parent
          \/ s.bmeta[cur].height # s.hdr[cur].height
       THEN Err(s, "MissingBlockMeta")
  ELSE IF ~pow_valid(s.hdr[cur]) THEN Err(s, "InvalidPow")
  ELSE IF verify_block_merkle(s.blk[cur]) # "none"
       THEN Err(s, verify_block_merkle(s.blk[cur]))
  ELSE IF s.hdr[cur].height = 0
       THEN IF cur # GenesisId THEN Err(s, "GenesisIdMismatch")
            ELSE Ok(s, TRUE)
  ELSE IF ~has_header(s, s.hdr[cur].parent) THEN Err(s, "MissingHeader")
  ELSE LET rest(pm) ==
             IF pm.err # "none" THEN pm
             ELSE IF s.hdr[cur].height # saturating_add1(pm.ret.height)
             THEN Err(pm.s, "HeightNotParentPlusOne")
             ELSE validate_from(pm.s, s.hdr[cur].parent)
       IN rest(ensure_block_meta_from_header(
                 s, s.hdr[cur].parent, s.hdr[s.hdr[cur].parent]))

validate_best_chain(s) == validate_from(s, s.tip.hash)

\* ------------------------------------------------------------ peer machine
\* egg-net/src/peer.rs.  Time is counted in whole seconds.
MAX_NOTFOUND_PER_ID == 2
MAX_DISTINCT_NOTFOUND_IDS == 16
PENALTY_BAN_THRESHOLD == 100
PENALTY_DECAY_EVERY == 10
PENALTY_DECAY_STEP == 10
PENALTY_UNSOLICITED_REPLY == 55
PENALTY_REPLY_WITHOUT_KNOWN_HEADER == 65
PENALTY_BLOCK_ID_MISMATCH == 70
PENALTY_BLOCK_NOTFOUND == 5
PENALTY_TOO_MANY_NOTFOUND_PER_ID == 25
PENALTY_TOO_MANY_DISTINCT_NOTFOUND == 40
PENALTY_TIMEOUT == 8
DEFAULT_BATCH_MAX == 2000

Tip(height, hash) == [height |-> height, hash |-> hash]

LocalInfo(chain_id, gid, t, node_nonce, agent) ==
  [chain_id |-> chain_id, genesis_id |-> gid, tip |-> t,
   node_nonce |-> node_nonce, agent |-> agent]

RemoteInfo(chain_id, gid, t, node_nonce, agent) ==
  [chain_id |-> chain_id, genesis_id |-> gid, tip |-> t,
   node_nonce |-> node_nonce, agent |-> agent]

\* protocol messages, as the machine matches them
Hello(chain_id, gid, t, node_nonce, agent) ==
  [type |-> "Hello", chain_id |-> chain_id, genesis_id |-> gid, tip |-> t,
   node_nonce |-> node_nonce, agent |-> agent]
HelloAck(chain_id, gid, t, node_nonce, agent) ==
  [type |-> "HelloAck", chain_id |-> chain_id, genesis_id |-> gid, tip |-> t,
   node_nonce |-> node_nonce, agent |-> agent]
GetHeaders(start, max) == [type |-> "GetHeaders", start |-> start, max |-> max]
Headers(headers) == [type |-> "Headers", headers |-> headers]
GetBlock(id) == [type |-> "GetBlock", id |-> id]
BlockFound(id, block) == [type |-> "BlockFound", id |-> id, block |-> block]
BlockNotFound(id) == [type |-> "BlockNotFound", id |-> id]
Ping(nonce) == [type |-> "Ping", nonce |-> nonce]
Pong(nonce) == [type |-> "Pong", nonce |-> nonce]

\* The machine record holds the fields of the PeerMachine struct and two
\* logs of the current call: the values assigned to hs, and one record per
\* add_penalty call that was not cut short by a ban.
new(role, local, t) ==
  [role |-> role, hs |-> "Init", local |-> local, remote |-> <<>>,
   sync_enabled |-> FALSE, sync_cursor_start |-> local.tip.hash,
   sync_batch_max |-> DEFAULT_BATCH_MAX,
   banned |-> <<>>,
   known_header_ids |-> {local.tip.hash}, inflight_blocks |-> {},
   notfound_by_id |-> <<>>, notfound_distinct_ids |-> {},
   penalty_score |-> 0, penalty_last_decay |-> t,
   hs_log |-> <<>>, pen_log |-> <<>>]

enable_header_sync(m, batch_max) ==
  [m EXCEPT !.sync_enabled = TRUE,
            !.sync_batch_max = IF batch_max > 1 THEN batch_max ELSE 1,
            !.sync_cursor_start = m.local.tip.hash]

is_ready(m) == m.hs = "Ready"
is_banned(m) == m.banned # <<>>

set_hs(m, v) == [m EXCEPT !.hs = v, !.hs_log = Append(@, v)]

\* the reason string "penalty threshold exceeded: score=.. reason=.."
\* The reason is the text "penalty threshold exceeded: score=<score>
\* reason=<why>", kept as its three parts.
ban(m, score, why) ==
  IF m.banned = <<>>
  THEN [m EXCEPT !.banned = << [text |-> "penalty threshold exceeded",
                                score |-> score, why |-> why] >>]
  ELSE m

apply_decay_never(m, t) == m
apply_decay(m, t) ==
  IF t < m.penalty_last_decay THEN [m EXCEPT !.penalty_last_decay = t]
  ELSE IF PENALTY_DECAY_EVERY = 0 THEN m
  ELSE IF (t - m.penalty_last_decay) \div PENALTY_DECAY_EVERY = 0 THEN m
  ELSE [m EXCEPT
          !.penalty_score =
            IF @ - ((t - m.penalty_last_decay) \div PENALTY_DECAY_EVERY)
                     * PENALTY_DECAY_STEP > 0
            THEN @ - ((t - m.penalty_last_decay) \div PENALTY_DECAY_EVERY)
                       * PENALTY_DECAY_STEP
            ELSE 0,
          !.penalty_last_decay = t]

\* add_penalty after its is_banned check and apply_decay
add_points_ban_always(d, points, why) ==
  [ ban(d, d.penalty_score + points, why)
      EXCEPT !.penalty_score = @ + points,
             !.pen_log = Append(@, [points |-> points, why |-> why]) ]

add_points(d, points, why) ==
  IF d.penalty_score + points >= PENALTY_BAN_THRESHOLD
  THEN [ ban(d, d.penalty_score + points, why)
           EXCEPT !.penalty_score = @ + points,
                  !.pen_log = Append(@, [points |-> points, why |-> why]) ]
  ELSE [ d EXCEPT !.penalty_score = @ + points,
                  !.pen_log = Append(@, [points |-> points, why |-> why]) ]

add_penalty(m, t, points, why) ==
  IF is_banned(m) THEN m
  ELSE add_points(apply_decay(m, t), points, why)

note_timeout(m, t) == add_penalty(m, t, PENALTY_TIMEOUT, "timeout")

\* Operations that return messages yield [m |-> machine, out |-> messages].
start(m) ==
  IF is_banned(m) THEN [m |-> m, out |-> <<>>]
  ELSE IF m.role = "Outbound" /\ m.hs = "Init"
  THEN [m |-> set_hs(m, "SentHello"),
        out |-> << Hello(m.local.chain_id, m.local.genesis_id, m.local.tip,
                         m.local.node_nonce, m.local.agent) >>]
  ELSE [m |-> m, out |-> <<>>]

make_get_headers(m, start_hash) == GetHeaders(start_hash, m.sync_batch_max)

request_block(m, id) ==
  [m |-> [m EXCEPT !.inflight_blocks = @ \cup {id}], out |-> << GetBlock(id) >>]

mark_remote(m, msg) ==
  [m EXCEPT !.remote = << RemoteInfo(msg.chain_id, msg.genesis_id, msg.tip,
                                     msg.node_nonce, msg.agent) >>]

maybe_sync_kickoff(m) ==
  IF m.sync_enabled /\ m.hs = "Ready"
  THEN << make_get_headers(m, m.sync_cursor_start) >>
  ELSE <<>>

\* [m |-> machine, ok |-> the bool returned]
hardening_on_block_reply_keep(m, t, id) ==
  IF id \notin m.inflight_blocks
  THEN [m |-> add_penalty(m, t, PENALTY_UNSOLICITED_REPLY,
                          "unsolicited block reply"),
        ok |-> FALSE]
  ELSE IF id \notin m.known_header_ids
  THEN [m |-> add_penalty(m, t, PENALTY_REPLY_WITHOUT_KNOWN_HEADER,
                          "block reply without known header"),
        ok |-> FALSE]
  ELSE [m |-> m, ok |-> TRUE]

hardening_on_block_reply(m, t, id) ==
  IF id \notin m.inflight_blocks
  THEN [m |-> add_penalty(m, t, PENALTY_UNSOLICITED_REPLY,
                          "unsolicited block reply"),
        ok |-> FALSE]
  ELSE IF id \notin m.known_header_ids
  THEN [m |-> add_penalty([m EXCEPT !.inflight_blocks = @ \ {id}], t,
                          PENALTY_REPLY_WITHOUT_KNOWN_HEADER,
                          "block reply without known header"),
        ok |-> FALSE]
  ELSE [m |-> [m EXCEPT !.inflight_blocks = @ \ {id}], ok |-> TRUE]

notfound_count(m, id) ==
  IF id \in DOMAIN m.notfound_by_id THEN m.notfound_by_id[id] ELSE 0

saturating_add1_u8(c) == IF c >= 255 THEN 255 ELSE c + 1

\* hardening_on_notfound, the distinct-ids step (m has the counter updated)
notfound_distinct(m, t, id) ==
  IF notfound_count(m, id) = 1
  THEN IF /\ Cardinality(m.notfound_distinct_ids) <= MAX_DISTINCT_NOTFOUND_IDS
          /\ Cardinality(m.notfound_distinct_ids \cup {id})
               > MAX_DISTINCT_NOTFOUND_IDS
       THEN add_penalty([m EXCEPT !.notfound_distinct_ids = @ \cup {id}], t,
                        PENALTY_TOO_MANY_DISTINCT_NOTFOUND,
                        "too many distinct BlockNotFound ids")
       ELSE [m EXCEPT !.notfound_distinct_ids = @ \cup {id}]
  ELSE m

\* ... the per-id escalation step
notfound_per_id(m, t, id) ==
  IF notfound_count(m, id) > MAX_NOTFOUND_PER_ID
  THEN notfound_distinct(
         add_penalty(m, t, PENALTY_TOO_MANY_NOTFOUND_PER_ID,
                     "too many BlockNotFound per id"), t, id)
  ELSE notfound_distinct(m, t, id)

\* ... the counter update (m has the base penalty applied)
notfound_bump(m, t, id) ==
  notfound_per_id(
    [m EXCEPT !.notfound_by_id =
                (id :> saturating_add1_u8(notfound_count(m, id))) @@ @],
    t, id)

hardening_on_notfound(m, t, id) ==
  notfound_bump(add_penalty(m, t, PENALTY_BLOCK_NOTFOUND, "BlockNotFound"),
                t, id)

hardening_on_found(m, id) ==
  [m EXCEPT !.notfound_by_id = [k \in (DOMAIN @) \ {id} |-> @[k]],
            !.notfound_distinct_ids = @ \ {id}]

\* the Hello / HelloAck arms, after mark_remote
on_hello(m) ==
  [m |-> set_hs(IF m.hs = "Init" THEN set_hs(m, "ReceivedHello") ELSE m, "Ready"),
   out |-> << HelloAck(m.local.chain_id, m.local.genesis_id, m.local.tip,
                       m.local.node_nonce, m.local.agent) >>
           \o maybe_sync_kickoff([m EXCEPT !.hs = "Ready"])]

on_hello_ack(m) ==
  [m |-> set_hs(m, "Ready"),
   out |-> maybe_sync_kickoff([m EXCEPT !.hs = "Ready"])]

\* the Headers arm
header_ids(headers) == { hash_header(headers[i]) : i \in 1 .. Len(headers) }

on_headers_first(m, headers) ==
  IF ~m.sync_enabled \/ headers = <<>>
  THEN [m |-> [m EXCEPT !.known_header_ids = @ \cup header_ids(headers)],
        out |-> <<>>]
  ELSE [m |-> [m EXCEPT !.known_header_ids = @ \cup header_ids(headers),
                        !.sync_cursor_start = hash_header(headers[1])],
        out |-> << make_get_headers(m, hash_header(headers[1])) >>]

on_headers(m, headers) ==
  IF ~m.sync_enabled \/ headers = <<>>
  THEN [m |-> [m EXCEPT !.known_header_ids = @ \cup header_ids(headers)],
        out |-> <<>>]
  ELSE [m |-> [m EXCEPT !.known_header_ids = @ \cup header_ids(headers),
                        !.sync_cursor_start = hash_header(headers[Len(headers)])],
        out |-> << make_get_headers(m, hash_header(headers[Len(headers)])) >>]

\* the BlockFound / BlockNotFound arms, given the result of
\* hardening_on_block_reply
on_block_found(r, t, msg) ==
  IF ~r.ok THEN [m |-> r.m, out |-> <<>>]
  ELSE IF hash_header(msg.block.header) # msg.id
  THEN [m |-> add_penalty(r.m, t, PENALTY_BLOCK_ID_MISMATCH,
                          "BlockFound id mismatch"),
        out |-> <<>>]
  ELSE [m |-> hardening_on_found(r.m, msg.id), out |-> <<>>]

on_block_not_found(r, t, msg) ==
  IF ~r.ok THEN [m |-> r.m, out |-> <<>>]
  ELSE [m |-> hardening_on_notfound(r.m, t, msg.id), out |-> <<>>]

\* the match in on_message_at (m is unbanned and decayed)
on_message_match(m, msg, t) ==
  CASE msg.type = "Hello" -> on_hello(mark_remote(m, msg))
    [] msg.type = "HelloAck" -> on_hello_ack(mark_remote(m, msg))
    [] msg.type = "GetHeaders" -> [m |-> m, out |-> <<>>]
    [] msg.type = "Headers" -> on_headers(m, msg.headers)
    [] msg.type = "GetBlock" -> [m |-> m, out |-> <<>>]
    [] msg.type = "BlockFound" ->
         on_block_found(hardening_on_block_reply(m, t, msg.id), t, msg)
    [] msg.type = "BlockNotFound" ->
         on_block_not_found(hardening_on_block_reply(m, t, msg.id), t, msg)
    [] msg.type = "Ping" -> [m |-> m, out |-> << Pong(msg.nonce) >>]
    [] msg.type = "Pong" -> [m |-> m, out |-> <<>>]

on_message_at_decay_banned(m, msg, t) ==
  IF is_banned(m) THEN [m |-> apply_decay(m, t), out |-> <<>>]
  ELSE on_message_match(apply_decay(m, t), msg, t)

on_message_at(m, msg, t) ==
  IF is_banned(m) THEN [m |-> m, out |-> <<>>]
  ELSE on_message_match(apply_decay(m, t), msg, t)

\* ------------------------------------------------------------ node (egg-node)
MAX_BLOCK_RETRIES == 2
BLOCK_WINDOW == 16
PER_REQ_RESEND_AFTER == 2
SESSION_IDLE_TIMEOUT == 20
IO_TICK_TIMEOUT == 1

InflightEntry(retries, last_sent) == [retries |-> retries, last_sent |-> last_sent]

\* The value run_syncer_once / run_responder_once returned, or Running.
Running == [kind |-> "Running", why |-> "none"]
NodeOk == [kind |-> "Ok", why |-> "none"]
NodeError(kind, why) == [kind |-> kind, why |-> why]

\* A syncer session is w = [st, pm, sy, sent]: the ChainState, the machine,
\* the locals of run_syncer_once and the messages written to the socket
\* since the last recv.  Besides the locals, sy keeps what the session did:
\* sends (GetBlock count per id), first (ids in the order of their first
\* request), ingested (ids handed to ingest_block), batches (non-empty
\* Headers batches taken).
Failed(w) == w.sy.result.kind # "Running"

fail(w, kind, why) == [w EXCEPT !.sy.result = NodeError(kind, why)]

\* out = peer.on_message(msg); send each; return Err when banned
peer_on_message(w, msg, t) ==
  LET chk(x) == IF is_banned(x.pm) THEN fail(x, "Protocol", "peer banned")
                ELSE x
      on(r) == chk([w EXCEPT !.pm = r.m, !.sent = @ \o r.out])
  IN on(on_message_at(w.pm, msg, t))

\* req = peer.request_block(id); io.send(&req)
send_request(w, id) ==
  LET on(r) ==
        [w EXCEPT !.pm = r.m,
                  !.sent = @ \o r.out,
                  !.sy.sends = (id :> (IF id \in DOMAIN @ THEN @[id] + 1 ELSE 1)) @@ @]
  IN on(request_block(w.pm, id))

RECURSIVE fill_window_unbounded(_, _)
fill_window_unbounded(w, t) ==
  IF w.sy.pending # <<>>
  THEN IF has_block(w.st, Head(w.sy.pending))
       THEN fill_window_unbounded([w EXCEPT !.sy.pending = Tail(@)], t)
       ELSE fill_window_unbounded(
              send_request(
                [w EXCEPT !.sy.pending = Tail(@),
                          !.sy.first = Append(@, Head(w.sy.pending)),
                          !.sy.inflight =
                             (Head(w.sy.pending) :> InflightEntry(0, t)) @@ @],
                Head(w.sy.pending)),
              t)
  ELSE w

\* phase 2, the window fill loop
RECURSIVE fill_window(_, _)
fill_window(w, t) ==
  IF Cardinality(DOMAIN w.sy.inflight) < BLOCK_WINDOW /\ w.sy.pending # <<>>
  THEN IF has_block(w.st, Head(w.sy.pending))
       THEN fill_window([w EXCEPT !.sy.pending = Tail(@)], t)
       ELSE fill_window(
              send_request(
                [w EXCEPT !.sy.pending = Tail(@),
                          !.sy.first = Append(@, Head(w.sy.pending)),
                          !.sy.inflight =
                             (Head(w.sy.pending) :> InflightEntry(0, t)) @@ @],
                Head(w.sy.pending)),
              t)
  ELSE w

\* after the phase 2 loop: validate_best_chain, then Ok
finish(w) ==
  LET v(r) == IF r.err # "none"
              THEN fail([w EXCEPT !.st = r.s], "Chain", r.err)
              ELSE [w EXCEPT !.st = r.s, !.sy.phase = "done",
                             !.sy.result = NodeOk]
  IN v(validate_best_chain(w.st))

\* phase 2, from the top of the loop to the recv
phase2_top(w, t) ==
  LET after(f) ==
        IF f.sy.pending = <<>> /\ DOMAIN f.sy.inflight = {} THEN finish(f)
        ELSE IF t - f.sy.last_progress > SESSION_IDLE_TIMEOUT
        THEN fail(f, "Protocol", "block sync idle timeout")
        ELSE f
  IN after(fill_window(w, t))

\* the pending queue: downloaded ids without duplicates whose block is absent
RECURSIVE build_pending(_, _, _, _, _)
build_pending(st, ids, i, seen, out) ==
  IF i > Len(ids) THEN out
  ELSE IF ids[i] \in seen THEN build_pending(st, ids, i + 1, seen, out)
  ELSE IF has_block(st, ids[i])
  THEN build_pending(st, ids, i + 1, seen \cup {ids[i]}, out)
  ELSE build_pending(st, ids, i + 1, seen \cup {ids[i]}, Append(out, ids[i]))

enter_phase2(w, t) ==
  phase2_top(
    [w EXCEPT !.sy.phase = "phase2",
              !.sy.pending = build_pending(w.st, w.sy.downloaded_ids, 1, {}, <<>>),
              !.sy.queued = build_pending(w.st, w.sy.downloaded_ids, 1, {}, <<>>),
              !.sy.inflight = <<>>,
              !.sy.last_progress = t],
    t)

\* phase 1, the idle check at the top of the loop
phase1_top(w, t) ==
  IF t - w.sy.last_progress > SESSION_IDLE_TIMEOUT
  THEN fail(w, "Protocol", "header sync idle timeout")
  ELSE w

\* phase 1, the loop over a non-empty batch
RECURSIVE phase1_headers(_, _, _)
phase1_headers(w, headers, i) ==
  IF i > Len(headers) THEN w
  ELSE LET next(r) ==
             IF r.err # "none"
             THEN fail([w EXCEPT !.st = r.s,
                                 !.sy.downloaded_ids =
                                    Append(@, hash_header(headers[i]))],
                       "Chain", r.err)
             ELSE phase1_headers(
                    [w EXCEPT !.st = r.s,
                              !.sy.downloaded_ids =
                                 Append(@, hash_header(headers[i]))],
                    headers, i + 1)
       IN next(ingest_header(w.st, headers[i]))

\* phase 1, one message received at time t
phase1_recv(w, msg, t) ==
  LET top(y) == IF Failed(y) THEN y ELSE phase1_top(y, t)
      leave(y) == IF Failed(y) THEN y ELSE enter_phase2(y, t)
      batch(x) == IF Failed(x) THEN x ELSE top(peer_on_message(x, msg, t))
  IN IF msg.type = "Headers" /\ msg.headers = <<>>
     THEN leave(peer_on_message(w, msg, t))
     ELSE IF msg.type = "Headers"
     THEN batch(phase1_headers([w EXCEPT !.sy.last_progress = t,
                                         !.sy.batches = @ + 1],
                               msg.headers, 1))
     ELSE top(peer_on_message(w, msg, t))

\* phase 1, recv timed out
phase1_timeout(w, t) == phase1_top(w, t)

remove_inflight(w, id) ==
  [w EXCEPT !.sy.inflight = [k \in (DOMAIN @) \ {id} |-> @[k]]]

node_block_found_unchecked(w, msg, t) ==
  IF msg.id \notin DOMAIN w.sy.inflight
  THEN fail(w, "Protocol", "unexpected BlockFound (not inflight)")
  ELSE LET ing(r) ==
             IF r.err # "none"
             THEN fail([remove_inflight(w, msg.id)
                          EXCEPT !.st = r.s,
                                 !.sy.ingested = Append(@, msg.id)],
                       "Chain", r.err)
             ELSE [remove_inflight(w, msg.id)
                     EXCEPT !.st = r.s,
                            !.sy.ingested = Append(@, msg.id),
                            !.sy.last_progress = t]
       IN ing(ingest_block(w.st, msg.block))

node_block_found_drop_mismatch(w, msg, t) ==
  IF msg.id \notin DOMAIN w.sy.inflight
  THEN fail(w, "Protocol", "unexpected BlockFound (not inflight)")
  ELSE IF ~has_header(w.st, msg.id)
  THEN fail(remove_inflight(w, msg.id), "Protocol", "local missing header")
  ELSE IF hash_header(msg.block.header) # msg.id
  THEN remove_inflight(w, msg.id)
  ELSE LET ing(r) ==
             IF r.err # "none"
             THEN fail([remove_inflight(w, msg.id)
                          EXCEPT !.st = r.s,
                                 !.sy.ingested = Append(@, msg.id)],
                       "Chain", r.err)
             ELSE [remove_inflight(w, msg.id)
                     EXCEPT !.st = r.s,
                            !.sy.ingested = Append(@, msg.id),
                            !.sy.last_progress = t]
       IN ing(ingest_block(w.st, msg.block))

\* phase 2, the BlockFound arm
node_block_found(w, msg, t) ==
  IF msg.id \notin DOMAIN w.sy.inflight
  THEN fail(w, "Protocol", "unexpected BlockFound (not inflight)")
  ELSE IF ~has_header(w.st, msg.id)
  THEN fail(remove_inflight(w, msg.id), "Protocol", "local missing header")
  ELSE IF hash_header(msg.block.header) # msg.id
  THEN fail(remove_inflight(w, msg.id), "Protocol",
            "block.header hashes to another id")
  ELSE LET ing(r) ==
             IF r.err # "none"
             THEN fail([remove_inflight(w, msg.id)
                          EXCEPT !.st = r.s,
                                 !.sy.ingested = Append(@, msg.id)],
                       "Chain", r.err)
             ELSE [remove_inflight(w, msg.id)
                     EXCEPT !.st = r.s,
                            !.sy.ingested = Append(@, msg.id),
                            !.sy.last_progress = t]
       IN ing(ingest_block(w.st, msg.block))

\* entry.retries += 1; entry.last_sent = now; request again
resend(w, id, t) ==
  send_request(
    [w EXCEPT !.sy.inflight[id] =
                 InflightEntry(saturating_add1_u8(@.retries), t)],
    id)

node_block_not_found_unbounded(w, msg, t) ==
  IF msg.id \notin DOMAIN w.sy.inflight
  THEN fail(w, "Protocol", "unexpected BlockNotFound (not inflight)")
  ELSE resend(w, msg.id, t)

\* phase 2, the BlockNotFound arm
node_block_not_found(w, msg, t) ==
  IF msg.id \notin DOMAIN w.sy.inflight
  THEN fail(w, "Protocol", "unexpected BlockNotFound (not inflight)")
  ELSE IF w.sy.inflight[msg.id].retries >= MAX_BLOCK_RETRIES
  THEN fail(w, "Protocol", "block not found after retries")
  ELSE resend(w, msg.id, t)

\* phase 2, one message received at time t
phase2_recv(w, msg, t) ==
  LET top(y) == IF Failed(y) THEN y ELSE phase2_top(y, t)
      arm(x) ==
        IF Failed(x) THEN x
        ELSE IF msg.type = "BlockFound" THEN top(node_block_found(x, msg, t))
        ELSE IF msg.type = "BlockNotFound"
        THEN top(node_block_not_found(x, msg, t))
        ELSE top(x)
  IN arm(peer_on_message(w, msg, t))

RECURSIVE resend_due_strict(_, _, _, _)
resend_due_strict(w, ids, i, t) ==
  IF i > Len(ids) THEN w
  ELSE IF ids[i] \notin DOMAIN w.sy.inflight
  THEN resend_due_strict(w, ids, i + 1, t)
  ELSE IF w.sy.inflight[ids[i]].retries > MAX_BLOCK_RETRIES
  THEN fail(w, "Protocol", "block timeout after retries")
  ELSE resend_due_strict(resend(w, ids[i], t), ids, i + 1, t)

\* phase 2, the resend loop; ids are the entries that were due, in the order
\* the map yields them
RECURSIVE resend_due(_, _, _, _)
resend_due(w, ids, i, t) ==
  IF i > Len(ids) THEN w
  ELSE IF ids[i] \notin DOMAIN w.sy.inflight THEN resend_due(w, ids, i + 1, t)
  ELSE IF w.sy.inflight[ids[i]].retries >= MAX_BLOCK_RETRIES
  THEN fail(w, "Protocol", "block timeout after retries")
  ELSE resend_due(resend(w, ids[i], t), ids, i + 1, t)

due_ids(w, t) ==
  { id \in DOMAIN w.sy.inflight :
      t - w.sy.inflight[id].last_sent >= PER_REQ_RESEND_AFTER }

\* phase 2, recv timed out at time t
phase2_timeout(w, ids, t) ==
  LET top(y) == IF Failed(y) THEN y ELSE phase2_top(y, t)
  IN top(resend_due(w, ids, 1, t))

\* run_syncer_once up to the first recv: open the store, make the machine,
\* send what start() returns
syncer_start(st, batch_max, t) ==
  LET started(r) ==
        [st |-> st, pm |-> r.m, sent |-> r.out,
         sy |-> [phase |-> "phase1", result |-> Running,
                 downloaded_ids |-> <<>>, pending |-> <<>>, inflight |-> <<>>,
                 last_progress |-> t, queued |-> <<>>, sends |-> <<>>,
                 first |-> <<>>, ingested |-> <<>>, batches |-> 0]]
  IN started(start(enable_header_sync(
               new("Outbound",
                   LocalInfo(st.meta[1].chain_id, st.meta[1].genesis_id,
                             Tip(st.tip.height, st.tip.hash), 1001,
                             "egg-node/syncer"),
                   t),
               batch_max)))

\* build_chain_with_blocks: the responder's chain, block i on top of i - 1
RECURSIVE build_chain_with_blocks(_, _, _)
build_chain_with_blocks(s, i, n_blocks) ==
  IF i > n_blocks THEN s
  ELSE build_chain_with_blocks(ingest_block(s, Block(hS(i), <<>>)).s, i + 1,
                               n_blocks)

\* The responder's ChainState: its store holds genesis and the whole chain.
ResponderState ==
  build_chain_with_blocks(open_or_init(EmptyStore, MainSpec).s, 1, SyncLen)

\* run_responder_once up to the first recv
responder_start(st, t) ==
  [pm |-> new("Inbound",
              LocalInfo(st.meta[1].chain_id, st.meta[1].genesis_id,
                        Tip(st.tip.height, st.tip.hash), 2002,
                        "egg-node/responder"),
              t),
   result |-> Running, sent |-> <<>>, machine_out |-> <<>>, msg |-> Pong(0),
   turn |-> 0]

headers_or_default(r) == IF r.err # "none" THEN <<>> ELSE r.ret

handle_get_headers(st, start_hash, max) ==
  Headers(headers_or_default(get_headers_after(st, start_hash, max)))

responder_reply_notfound(st, msg) ==
  IF msg.type = "GetHeaders"
  THEN << handle_get_headers(st, msg.start, msg.max) >>
  ELSE IF msg.type = "GetBlock" THEN << BlockNotFound(msg.id) >>
  ELSE <<>>

\* the responder's own reply to a request, made when the machine is Ready
responder_reply(st, msg) ==
  IF msg.type = "GetHeaders"
  THEN << handle_get_headers(st, msg.start, msg.max) >>
  ELSE IF msg.type = "GetBlock"
  THEN IF ~has_block(st, msg.id) THEN << BlockNotFound(msg.id) >>
       ELSE << BlockFound(msg.id, st.blk[msg.id]) >>
  ELSE <<>>

responder_recv_any_state(rs, st, msg, t) ==
  LET on(r) ==
        IF is_banned(r.m)
        THEN [pm |-> r.m, result |-> NodeError("Protocol", "peer banned"),
              sent |-> r.out, machine_out |-> r.out, msg |-> msg,
              turn |-> 1 - rs.turn]
        ELSE [pm |-> r.m, result |-> Running,
              sent |-> r.out \o responder_reply(st, msg), machine_out |-> r.out,
              msg |-> msg, turn |-> 1 - rs.turn]
  IN on(on_message_at(rs.pm, msg, t))

\* run_responder_once, one message received at time t; machine_out, msg and
\* turn record what the machine returned, the message and the parity of the
\* loop count
responder_recv(rs, st, msg, t) ==
  LET on(r) ==
        IF is_banned(r.m)
        THEN [pm |-> r.m, result |-> NodeError("Protocol", "peer banned"),
              sent |-> r.out, machine_out |-> r.out, msg |-> msg,
              turn |-> 1 - rs.turn]
        ELSE IF is_ready(r.m)
        THEN [pm |-> r.m, result |-> Running,
              sent |-> r.out \o responder_reply(st, msg), machine_out |-> r.out,
              msg |-> msg, turn |-> 1 - rs.turn]
        ELSE [pm |-> r.m, result |-> Running, sent |-> r.out,
              machine_out |-> r.out, msg |-> msg, turn |-> 1 - rs.turn]
  IN on(on_message_at(rs.pm, msg, t))

\* ------------------------------------------------------------ mempool
DEFAULT_MAX_TXS == 100000
DEFAULT_MAX_TOTAL_BYTES == 67108864

\* payload.len(): the payloads of the model are 1 and 2 bytes long
payload_len(payload) == payload

new_mempool == [by_id |-> <<>>, order |-> <<>>, total_payload_bytes |-> 0]

contains(m, txid) == txid \in DOMAIN m.by_id

\* HashMap::remove
map_remove(map, key) ==
  IF DOMAIN map \subseteq { key } THEN <<>>
  ELSE [k \in DOMAIN map \ { key } |-> map[k]]

\* Ok(outcome) or Err(e), with the mempool after the call
add_tx(m, tx) ==
  IF tx.id # tx_id_from_payload(tx.payload) \/ ~validate_tx_id(tx)
  THEN [mp |-> m, err |-> "InvalidTxId", ret |-> "none"]
  ELSE IF contains(m, tx.id)
  THEN [mp |-> m, err |-> "none", ret |-> "AlreadyKnown"]
  ELSE IF payload_len(tx.payload) > DEFAULT_MAX_TOTAL_BYTES
  THEN [mp |-> m, err |-> "TxTooLarge", ret |-> "none"]
  ELSE IF Cardinality(DOMAIN m.by_id) >= DEFAULT_MAX_TXS
  THEN [mp |-> m, err |-> "Full", ret |-> "none"]
  ELSE IF m.total_payload_bytes + payload_len(tx.payload) > DEFAULT_MAX_TOTAL_BYTES
  THEN [mp |-> m, err |-> "Full", ret |-> "none"]
  ELSE [mp |-> [by_id |-> (tx.id :> tx) @@ m.by_id,
                order |-> Append(m.order, tx.id),
                total_payload_bytes |->
                  m.total_payload_bytes + payload_len(tx.payload)],
        err |-> "none", ret |-> "Added"]

\* Some(tx) is << tx >>, None is << >>; order is left as it is
remove(m, txid) ==
  IF ~contains(m, txid) THEN [mp |-> m, ret |-> <<>>]
  ELSE [mp |-> [m EXCEPT !.by_id = map_remove(@, txid),
                         !.total_payload_bytes =
                           @ - payload_len(m.by_id[txid].payload)],
        ret |-> << m.by_id[txid] >>]

\* the while loop of drain_fifo
RECURSIVE drain_loop(_, _, _)
drain_loop(m, max, out) ==
  IF Len(out) >= max \/ m.order = <<>> THEN [mp |-> m, ret |-> out]
  ELSE LET txid == Head(m.order)
           popped == [m EXCEPT !.order = Tail(@)]
       IN IF contains(m, txid)
          THEN drain_loop(remove(popped, txid).mp, max,
                          Append(out, m.by_id[txid]))
          ELSE drain_loop(popped, max, out)

drain_fifo(m, max) == drain_loop(m, max, <<>>)

\* ------------------------------------------------------------ miner
MAX_TXS_PER_BLOCK == 10000
DEFAULT_MAX_NONCE_TRIES == 50000000

\* Ok(block) or Err(e), with the mempool after the drain
build_block_template_from_mempool(m, parent, height, pow_difficulty_bits) ==
  LET drained == drain_fifo(m, MAX_TXS_PER_BLOCK)
      merkle_root == compute_merkle_root_from_txs(drained.ret)
  IN IF merkle_root.err # "none"
     THEN [mp |-> drained.mp, err |-> merkle_root.err, ret |-> <<>>]
     ELSE [mp |-> drained.mp, err |-> "none",
           ret |-> << Block(BlockHeader(parent, height, 0, merkle_root.ret,
                                        pow_difficulty_bits), drained.ret) >>]

\* The nonce search. The hash of a header repeats every NoncePeriod nonces,
\* so the first NoncePeriod tries decide the 50,000,000.
MineTries == Min(DEFAULT_MAX_NONCE_TRIES, NoncePeriod)
with_nonce(block, add) == [block EXCEPT !.header.nonce = @ + add]
mine_block(block) ==
  IF \E k \in 0 .. MineTries - 1 : pow_valid(with_nonce(block, k).header)
  THEN [err |-> "none",
        ret |-> << with_nonce(block,
                     CHOOSE k \in 0 .. MineTries - 1 :
                       /\ pow_valid(with_nonce(block, k).header)
                       /\ \A j \in 0 .. k - 1 :
                            ~pow_valid(with_nonce(block, j).header)) >>]
  ELSE [err |-> "PowNotFound", ret |-> <<>>]

\* The Err arm of the match returns the error; nothing is put back.
mine_block_from_mempool(m, parent, height, pow_difficulty_bits) ==
  LET built == build_block_template_from_mempool(m, parent, height,
                                                 pow_difficulty_bits)
  IN IF built.err # "none" THEN built
     ELSE [mp |-> built.mp, err |-> mine_block(built.ret[1]).err,
           ret |-> mine_block(built.ret[1]).ret]

\* mine_and_append_one: Ok(id) or Err(e), with the engine and the mempool
\* after the call. The key-value store is external: kv_ok tells whether its
\* writes succeed; when they do not, ingest_block returns a Store error at
\* its first put.
mine_and_append_one(s, m, pow_difficulty_bits, kv_ok) ==
  LET mined == mine_block_from_mempool(m, s.tip.hash,
                                       saturating_add1(s.tip.height),
                                       pow_difficulty_bits)
      ingested == IF kv_ok THEN ingest_block(s, mined.ret[1])
                  ELSE Err(s, "Store")
  IN IF mined.err # "none"
     THEN [s |-> s, mp |-> mined.mp, err |-> mined.err, ret |-> Zero]
     ELSE IF ingested.err # "none"
     THEN [s |-> ingested.s, mp |-> mined.mp, err |-> ingested.err, ret |-> Zero]
     ELSE [s |-> ingested.s, mp |-> mined.mp, err |-> "none",
           ret |-> header_id(mined.ret[1].header)]

\* ------------------------------------------------------------ specification
VARIABLES
  pm,         \* the PeerMachine
  pout,       \* the messages returned by the last machine call
  plast,      \* the last machine call: [op, msg, score (before the call)]
  now,        \* the clock (Instant::now()), in seconds
  crossings   \* how often the distinct-notfound penalty has been applied

peerVars == <<pm, pout, plast, now, crossings>>

VARIABLES
  sy,         \* the locals of run_syncer_once and what the session did
  rs,         \* run_responder_once: its machine, result and last messages
  net         \* the TCP connection: messages in flight in each direction

nodeVars == <<sy, rs, net>>

VARIABLE
  mp          \* the Mempool: by_id, order, total_payload_bytes

poolVars == <<mp>>
vars == <<chainVars, peerVars, nodeVars, poolVars>>

\* No node session is running and the mempool is new.
NodeOff ==
  /\ sy = [phase |-> "off", result |-> Running]
  /\ rs = [result |-> Running]
  /\ net = [toResp |-> <<>>, toSync |-> <<>>]
  /\ mp = new_mempool

\* open_or_init on an empty store: genesis is written and becomes the tip.
\* A second instance is opened over the same store right after.
ChainInit ==
  /\ smeta = << expected_meta(MainSpec) >>
  /\ tip2 = ChainTip(0, GenesisId)
  /\ hdr = (GenesisId :> GenesisHeader)
  /\ blk = (GenesisId :> Block(GenesisHeader, <<>>))
  /\ bmeta = (GenesisId :> BlockMeta(GenesisHeader.parent, GenesisHeader.height))
  /\ children = <<>>
  /\ canon = (0 :> GenesisId)
  /\ stip = ChainTip(0, GenesisId)
  /\ tip = ChainTip(0, GenesisId)
  /\ last = [op |-> "open_or_init", id |-> GenesisId, out |-> "none"]
  /\ mstLog = <<>>

\* The local side of every machine: the node at genesis.
Local == LocalInfo(1, GenesisId, Tip(0, GenesisId), 111, "local")

\* PeerMachine::new, optionally followed by enable_header_sync(batch_max)
PeerInit(role, sync, batch_max) ==
  /\ pm = IF sync THEN enable_header_sync(new(role, Local, 0), batch_max)
          ELSE new(role, Local, 0)
  /\ pout = <<>>
  /\ plast = [op |-> "new", msg |-> Pong(0), score |-> 0]
  /\ now = 0
  /\ crossings = 0

Init == ChainInit /\ PeerInit("Outbound", FALSE, 0) /\ NodeOff

Commit(r, op, id) ==
  /\ smeta' = r.s.meta
  /\ hdr' = r.s.hdr
  /\ blk' = r.s.blk
  /\ bmeta' = r.s.bmeta
  /\ children' = r.s.children
  /\ canon' = r.s.canon
  /\ stip' = r.s.stip
  /\ tip' = r.s.tip
  /\ mstLog' = r.s.log
  /\ last' = [op |-> op, id |-> id,
              out |-> IF r.err = "none" THEN r.ret ELSE r.err]
  /\ UNCHANGED <<tip2, peerVars, nodeVars, poolVars>>

IngestBlock(block) ==
  Commit(ingest_block(Cur, block), "ingest_block", header_id(block.header))

IngestHeader(header) ==
  Commit(ingest_header(Cur, header), "ingest_header", header_id(header))

Next ==
  /\ Cardinality(DOMAIN hdr) <= MaxStored
  /\ \/ \E block \in BlockInputs : IngestBlock(block)
     \/ \E header \in HeaderInputs : IngestHeader(header)

Spec == Init /\ [][Next]_vars

\* Every valid block is ingested exactly once, in any order.
NextBlocks ==
  \E block \in ValidBlocks :
    /\ header_id(block.header) \notin DOMAIN blk
    /\ IngestBlock(block)

SpecBlocks == Init /\ [][NextBlocks]_vars

\* open_or_init over the store as it stands.  On Ok the new ChainState takes
\* the place of the running one; on Err no instance is made and the running
\* one goes on.  Whatever open_or_init wrote to the store stays written.
Reopen(spec) ==
  LET commit(r) ==
        /\ smeta' = r.s.meta
        /\ hdr' = r.s.hdr
        /\ blk' = r.s.blk
        /\ bmeta' = r.s.bmeta
        /\ children' = r.s.children
        /\ canon' = r.s.canon
        /\ stip' = r.s.stip
        /\ tip' = IF r.err = "none" THEN r.s.tip ELSE tip
        /\ mstLog' = <<>>
        /\ last' = [op |-> "reopen", id |-> hash_chainspec(spec),
                    out |-> IF r.err = "none" THEN "Opened" ELSE r.err]
        /\ UNCHANGED <<tip2, peerVars, nodeVars, poolVars>>
  IN commit(open_or_init(Cur, spec))

NextOpen ==
  \/ /\ Cardinality(DOMAIN hdr) <= MaxStored
     /\ \E block \in OpenBlocks : IngestBlock(block)
  \/ /\ Cardinality(DOMAIN hdr) <= MaxStored
     /\ \E header \in { b.header : b \in OpenBlocks } : IngestHeader(header)
  \/ \E spec \in SpecInputs : Reopen(spec)

SpecOpen == Init /\ [][NextOpen]_vars

\* Two sessions, each with its own ChainState over the one store; their
\* ingest calls never overlap.  Every block is ingested once, by either
\* session, after its parent block.
IngestBlock2(block) ==
  LET commit(r) ==
        /\ smeta' = r.s.meta
        /\ hdr' = r.s.hdr
        /\ blk' = r.s.blk
        /\ bmeta' = r.s.bmeta
        /\ children' = r.s.children
        /\ canon' = r.s.canon
        /\ stip' = r.s.stip
        /\ tip2' = r.s.tip
        /\ mstLog' = r.s.log
        /\ last' = [op |-> "ingest_block_2", id |-> header_id(block.header),
                    out |-> IF r.err = "none" THEN r.ret ELSE r.err]
        /\ UNCHANGED <<tip, peerVars, nodeVars, poolVars>>
  IN commit(ingest_block(Cur2, block))

NextSessions ==
  \E block \in SessionBlocks :
    /\ header_id(block.header) \notin DOMAIN blk
    /\ block.header.parent \in DOMAIN blk
    /\ \/ IngestBlock(block)
       \/ IngestBlock2(block)

SpecSessions == Init /\ [][NextSessions]_vars

\* ------------------------------------------------------------ peer sessions
Remote == RemoteInfo(1, GenesisId, Tip(0, GenesisId), 222, "remote")

\* The machine as a call finds it: the logs of the previous call are gone.
Fresh(m) == [m EXCEPT !.hs_log = <<>>, !.pen_log = <<>>]

DistinctPenalties(m) ==
  Cardinality({ i \in 1 .. Len(m.pen_log) :
                  m.pen_log[i].points = PENALTY_TOO_MANY_DISTINCT_NOTFOUND })

PeerCommit(r, op, msg) ==
  /\ pm' = r.m
  /\ pout' = r.out
  /\ plast' = [op |-> op, msg |-> msg, score |-> pm.penalty_score]
  /\ crossings' = crossings + DistinctPenalties(r.m)
  /\ UNCHANGED <<now, chainVars, nodeVars, poolVars>>

Start == PeerCommit(start(Fresh(pm)), "start", Pong(0))

OnMessage(msg) ==
  PeerCommit(on_message_at(Fresh(pm), msg, now), "on_message", msg)

RequestBlock(id) ==
  PeerCommit(request_block(Fresh(pm), id), "request_block", GetBlock(id))

NoteTimeout ==
  PeerCommit([m |-> note_timeout(Fresh(pm), now), out |-> <<>>],
             "note_timeout", Pong(0))

Tick(d) ==
  /\ now + d <= MaxNow
  /\ now' = now + d
  /\ UNCHANGED <<pm, pout, plast, crossings, chainVars, nodeVars, poolVars>>

\* Handshake and header sync: what the remote side may send.
PeerMsgs ==
  { Hello(Remote.chain_id, Remote.genesis_id, Remote.tip, Remote.node_nonce,
          Remote.agent),
    HelloAck(Remote.chain_id, Remote.genesis_id, Remote.tip, Remote.node_nonce,
             Remote.agent),
    GetHeaders(GenesisId, 2), GetBlock(3), Ping(1), Pong(1),
    Headers(<<>>), Headers(<<hA>>), Headers(<<hA, hB>>), Headers(<<hC>>) }

PeerIds == { 3, 11 }

InitPeer ==
  /\ ChainInit
  /\ NodeOff
  /\ \E role \in { "Inbound", "Outbound" } :
       \/ PeerInit(role, FALSE, 0)
       \/ \E batch_max \in { 0, 2 } : PeerInit(role, TRUE, batch_max)

NextPeer ==
  \/ Start
  \/ \E msg \in PeerMsgs : OnMessage(msg)
  \/ \E id \in PeerIds : RequestBlock(id)
  \/ NoteTimeout

SpecPeer == InitPeer /\ [][NextPeer]_vars

\* Block replies, penalties and the clock: an outbound machine with header
\* sync enabled.  Id 3 becomes known through Headers, id 11 never does.
ReplyMsgs ==
  { Headers(<<hA>>), Ping(1),
    BlockFound(3, Block(hA, <<>>)), BlockFound(3, Block(hB, <<>>)),
    BlockNotFound(3), BlockNotFound(11) }

TickSteps == { 9, 60 }

Deliverable(msg) ==
  msg.type = "BlockNotFound" => notfound_count(pm, msg.id) < MaxRepeat

InitPenalty == ChainInit /\ PeerInit("Outbound", TRUE, 2) /\ NodeOff

NextPenalty ==
  \/ \E msg \in ReplyMsgs : Deliverable(msg) /\ OnMessage(msg)
  \/ \E id \in PeerIds : RequestBlock(id)
  \/ \E d \in TickSteps : Tick(d)

SpecPenalty == InitPenalty /\ [][NextPenalty]_vars

\* A session in which the remote announces NumNf headers and then answers
\* block requests one at a time, for the lowest id not yet counted as not
\* found or again for the first id; the clock moves in long steps.
NfHeaders == [i \in 1 .. NumNf |-> hN(i)]
NfIds == { hash_header(hN(i)) : i \in 1 .. NumNf }
FirstNfId == hash_header(hN(1))

NextNfId(m) ==
  { id \in NfIds :
      /\ id \notin DOMAIN m.notfound_by_id
      /\ \A k \in NfIds : k < id => k \in DOMAIN m.notfound_by_id }

NextNotFound ==
  \/ /\ ~(NfIds \subseteq pm.known_header_ids)
     /\ OnMessage(Headers(NfHeaders))
  \/ /\ NfIds \subseteq pm.known_header_ids
     /\ pm.inflight_blocks = {}
     /\ \E id \in NextNfId(pm) \cup {FirstNfId} : RequestBlock(id)
  \/ \E id \in pm.inflight_blocks :
       /\ notfound_count(pm, id) < MaxRepeat
       /\ OnMessage(BlockNotFound(id))
  \/ /\ FirstNfId \in pm.inflight_blocks
     /\ OnMessage(BlockFound(FirstNfId, Block(hN(1), <<>>)))
  \/ Tick(60)

SpecNotFound == Init /\ [][NextNotFound]_vars

\* ------------------------------------------------------------ node sessions
\* The session as a step finds it.
World == [st |-> Cur, pm |-> Fresh(pm), sy |-> sy, sent |-> <<>>]

\* A step of run_syncer_once ending at time t: from a recv to the next recv,
\* or to the return.
SyncCommit(w, op, msg, t) ==
  /\ smeta' = w.st.meta
  /\ hdr' = w.st.hdr
  /\ blk' = w.st.blk
  /\ bmeta' = w.st.bmeta
  /\ children' = w.st.children
  /\ canon' = w.st.canon
  /\ stip' = w.st.stip
  /\ tip' = w.st.tip
  /\ mstLog' = w.st.log
  /\ last' = [op |-> "run_syncer_once", id |-> GenesisId, out |-> w.sy.result.kind]
  /\ pm' = w.pm
  /\ pout' = w.sent
  /\ plast' = [op |-> op, msg |-> msg, score |-> pm.penalty_score]
  /\ crossings' = crossings + DistinctPenalties(w.pm)
  /\ now' = t
  /\ sy' = w.sy
  /\ UNCHANGED tip2

SyncStep(msg, t) ==
  IF sy.phase = "phase1"
  THEN SyncCommit(phase1_recv(World, msg, t), "recv", msg, t)
  ELSE SyncCommit(phase2_recv(World, msg, t), "recv", msg, t)

\* recv returned msg, d seconds after the session started to wait
SyncRecv(msg, d) ==
  /\ sy.result = Running
  /\ now + d <= MaxNow
  /\ SyncStep(msg, now + d)
  /\ UNCHANGED <<rs, net, mp>>

\* The orders in which the resend loop may meet the entries that are due.
SeqUp(S) ==
  LET RECURSIVE up(_)
      up(R) == IF R = {} THEN <<>>
               ELSE LET m == CHOOSE x \in R : \A y \in R : x <= y
                    IN << m >> \o up(R \ {m})
  IN up(S)
SeqDown(S) ==
  LET RECURSIVE down(_)
      down(R) == IF R = {} THEN <<>>
                 ELSE LET m == CHOOSE x \in R : \A y \in R : x >= y
                      IN << m >> \o down(R \ {m})
  IN down(S)
MapOrders(S) == { SeqUp(S), SeqDown(S) }

\* recv timed out after IO_TICK_TIMEOUT, in phase 1
Phase1Timeout ==
  /\ sy.result = Running
  /\ sy.phase = "phase1"
  /\ now + IO_TICK_TIMEOUT <= MaxNow
  /\ SyncCommit(phase1_timeout(World, now + IO_TICK_TIMEOUT), "timeout",
                Pong(0), now + IO_TICK_TIMEOUT)
  /\ UNCHANGED <<rs, net, mp>>

\* recv timed out after IO_TICK_TIMEOUT, in phase 2
Phase2Timeout ==
  /\ sy.result = Running
  /\ sy.phase = "phase2"
  /\ now + IO_TICK_TIMEOUT <= MaxNow
  /\ \E ids \in MapOrders(due_ids(World, now + IO_TICK_TIMEOUT)) :
       SyncCommit(phase2_timeout(World, ids, now + IO_TICK_TIMEOUT),
                  "timeout", Pong(0), now + IO_TICK_TIMEOUT)
  /\ UNCHANGED <<rs, net, mp>>

\* The syncer at its first recv, over a store that holds genesis only.
SyncerInit(batch_max) ==
  /\ ChainInit
  /\ pm = syncer_start(open_or_init(EmptyStore, MainSpec).s, batch_max, 0).pm
  /\ sy = syncer_start(open_or_init(EmptyStore, MainSpec).s, batch_max, 0).sy
  /\ pout = syncer_start(open_or_init(EmptyStore, MainSpec).s, batch_max, 0).sent
  /\ plast = [op |-> "start", msg |-> Pong(0), score |-> 0]
  /\ now = 0
  /\ crossings = 0

\* A syncer against a remote side that may send anything: the handshake
\* reply, header batches of the responder chain, and in phase 2 replies for
\* the lowest inflight id and for an id that was not requested.  In a
\* session that downloads no more than the short batch the remote side may
\* also answer BlockNotFound for a requested id, or stay silent while the
\* clock runs.
SyncChain(n) == [i \in 1 .. n |-> hS(i)]
ChainAck ==
  HelloAck(1, GenesisId, Tip(SyncLen, SId(SyncLen)), 2002, "egg-node/responder")

Phase1Msgs ==
  { ChainAck, Ping(1), Headers(<<>>), Headers(SyncChain(SyncLen)),
    Headers(SyncChain(MaxBatch)) }

Lowest(S) == CHOOSE x \in S : \A y \in S : x <= y

ReplyIds ==
  IF DOMAIN sy.inflight = {} THEN {}
  ELSE { Lowest(DOMAIN sy.inflight) }

ShortSession == Len(sy.queued) <= MaxBatch

Phase2Msgs ==
  { BlockFound(id, Block(hdr[id], <<>>)) : id \in ReplyIds }
  \cup { BlockNotFound(id) : id \in IF ShortSession THEN ReplyIds ELSE {} }
  \cup { BlockFound(id, Block(hOff, <<>>)) : id \in ReplyIds }
  \cup { BlockFound(hash_header(hOff), Block(hOff, <<>>)),
         BlockNotFound(hash_header(hOff)), Ping(1) }

InitSyncer ==
  /\ SyncerInit(DEFAULT_BATCH_MAX)
  /\ rs = [result |-> Running]
  /\ net = [toResp |-> <<>>, toSync |-> <<>>]
  /\ mp = new_mempool

NextSyncer ==
  \/ /\ sy.phase = "phase1"
     /\ \E msg \in Phase1Msgs :
          /\ ( msg.type = "Headers" /\ msg.headers # <<>> )
               => sy.batches < MaxBatches
          /\ SyncRecv(msg, 0)
  \/ /\ sy.phase = "phase2"
     /\ \E msg \in Phase2Msgs : SyncRecv(msg, 0)
  \/ /\ ShortSession
     /\ Phase2Timeout

SpecSyncer == InitSyncer /\ [][NextSyncer]_vars

\* The responder takes the next message off the connection.
RespRecv ==
  /\ rs.result = Running
  /\ net.toResp # <<>>
  /\ rs' = responder_recv([rs EXCEPT !.pm = Fresh(@)], ResponderState,
                          Head(net.toResp), now)
  /\ net' = [toResp |-> Tail(net.toResp), toSync |-> net.toSync \o rs'.sent]
  /\ UNCHANGED <<chainVars, peerVars, sy, mp>>

\* The syncer has returned and its socket is closed: recv yields
\* UnexpectedEof and the responder returns Ok.
RespEof ==
  /\ rs.result = Running
  /\ sy.result # Running
  /\ net.toResp = <<>>
  /\ rs' = [rs EXCEPT !.result = NodeOk, !.sent = <<>>, !.machine_out = <<>>]
  /\ UNCHANGED <<chainVars, peerVars, sy, net, mp>>

\* The syncer takes the next message off the connection.
SyncRecvNet ==
  /\ sy.result = Running
  /\ net.toSync # <<>>
  /\ SyncStep(Head(net.toSync), now)
  /\ net' = [toResp |-> net.toResp \o pout', toSync |-> Tail(net.toSync)]
  /\ UNCHANGED <<rs, mp>>

\* Two nodes: a responder that holds the whole chain and answers at once, and
\* a syncer that starts from genesis, with the default batch size or a small
\* one.
InitSync ==
  /\ \E batch_max \in { DEFAULT_BATCH_MAX, SyncBatch } : SyncerInit(batch_max)
  /\ rs = responder_start(ResponderState, 0)
  /\ net = [toResp |-> pout, toSync |-> <<>>]
  /\ mp = new_mempool

NextSync ==
  \/ SyncRecvNet
  \/ RespRecv
  \/ RespEof

\* Each side is a thread of its own that takes a waiting message sooner or
\* later: weak fairness of the three actions, written out with the guard of
\* each action in the place of ENABLED.
SyncCanRecv == sy.result = Running /\ net.toSync # <<>>
RespCanRecv == rs.result = Running /\ net.toResp # <<>>
RespCanEof == rs.result = Running /\ sy.result # Running /\ net.toResp = <<>>

SpecSync ==
  /\ InitSync
  /\ [][NextSync]_vars
  /\ ( []<>(~SyncCanRecv) \/ []<><<SyncRecvNet>>_vars )
  /\ ( []<>(~RespCanRecv) \/ []<><<RespRecv>>_vars )
  /\ ( []<>(~RespCanEof) \/ []<><<RespEof>>_vars )

\* The syncer's recv times out after IO_TICK_TIMEOUT: nothing has arrived.
\* What the tick sends goes onto the connection.  The responder is slow to
\* take the Hello, for no longer than MaxSlowStart, and slow to send its
\* first block.
Phase1TimeoutNet ==
  /\ sy.result = Running
  /\ sy.phase = "phase1"
  /\ net.toSync = <<>>
  /\ ~is_ready(rs.pm)
  /\ now < MaxSlowStart
  /\ now + IO_TICK_TIMEOUT <= MaxNow
  /\ SyncCommit(phase1_timeout(World, now + IO_TICK_TIMEOUT), "timeout",
                Pong(0), now + IO_TICK_TIMEOUT)
  /\ net' = [toResp |-> net.toResp \o pout', toSync |-> net.toSync]
  /\ UNCHANGED <<rs, mp>>

Phase2TimeoutNet ==
  /\ sy.result = Running
  /\ sy.phase = "phase2"
  /\ net.toSync = <<>>
  /\ sy.ingested = <<>>
  /\ now + IO_TICK_TIMEOUT <= MaxNow
  /\ \E ids \in MapOrders(due_ids(World, now + IO_TICK_TIMEOUT)) :
       SyncCommit(phase2_timeout(World, ids, now + IO_TICK_TIMEOUT),
                  "timeout", Pong(0), now + IO_TICK_TIMEOUT)
  /\ net' = [toResp |-> net.toResp \o pout', toSync |-> net.toSync]
  /\ UNCHANGED <<rs, mp>>

\* Two nodes as in SpecSync, with a responder that may take its time: while
\* a request waits on the connection the syncer's recv may time out, again
\* and again.
NextSlow ==
  \/ SyncRecvNet
  \/ RespRecv
  \/ RespEof
  \/ Phase1TimeoutNet
  \/ Phase2TimeoutNet

SpecSlow == InitSync /\ [][NextSlow]_vars

\* A session that may go on for ever.  Instants are kept relative to the
\* present: `now` stays where it is and, when d seconds pass, every stored
\* Instant moves d back, no further than AgeCap (the code reads Instants only
\* through differences, the largest threshold being SESSION_IDLE_TIMEOUT; the
\* score stays 0 here, so the decay subtracts nothing).  The downloaded ids
\* are kept without repeats, which is how the pending queue reads them
\* (lib.rs 289-300), and the batch count stops at MaxBatches.
\* ids in the order of their first occurrence
RECURSIVE FirstOccurrences(_, _, _)
FirstOccurrences(ids, i, out) ==
  IF i > Len(ids) THEN out
  ELSE IF \E k \in 1 .. Len(out) : out[k] = ids[i]
  THEN FirstOccurrences(ids, i + 1, out)
  ELSE FirstOccurrences(ids, i + 1, Append(out, ids[i]))

Back(instant, d) ==
  IF instant - d < now - AgeCap THEN now - AgeCap ELSE instant - d

Rebase(w, d) ==
  LET fl == w.sy.inflight
  IN [w EXCEPT
        !.pm.penalty_last_decay = Back(@, d),
        !.sy.last_progress = Back(@, d),
        !.sy.inflight =
           [id \in DOMAIN fl |->
              InflightEntry(fl[id].retries, Back(fl[id].last_sent, d))],
        !.sy.downloaded_ids = FirstOccurrences(@, 1, <<>>),
        !.sy.batches = Min(@, MaxBatches)]

\* The remote side sends well-formed messages only: the handshake reply, a
\* short header batch as often as it likes, the end of the headers, Pings,
\* and in phase 2 the block of the lowest inflight id.
ForeverMsgs ==
  IF sy.phase = "phase1"
  THEN { ChainAck, Ping(1), Headers(<<>>), Headers(SyncChain(MaxBatch)) }
  ELSE { BlockFound(id, Block(hdr[id], <<>>)) : id \in ReplyIds }
       \cup { Ping(1) }

\* The session has been blocked in recv for IO_TICK_TIMEOUT and nothing has
\* arrived yet: every Instant is that much older.
Waited == plast.op = "wait"

ForeverWait ==
  /\ sy.result = Running
  /\ ~Waited
  /\ pm' = Rebase(World, IO_TICK_TIMEOUT).pm
  /\ sy' = Rebase(World, IO_TICK_TIMEOUT).sy
  /\ plast' = [op |-> "wait", msg |-> Pong(0), score |-> pm.penalty_score]
  /\ UNCHANGED <<chainVars, pout, crossings, now, rs, net, mp>>

\* a message arrives, at once or at the end of the wait
ForeverRecv(msg) ==
  /\ sy.result = Running
  /\ IF sy.phase = "phase1"
     THEN SyncCommit(Rebase(phase1_recv(World, msg, now), 0), "recv", msg, now)
     ELSE SyncCommit(Rebase(phase2_recv(World, msg, now), 0), "recv", msg, now)
  /\ UNCHANGED <<rs, net, mp>>

\* recv returns a timeout at the end of the wait
ForeverTimeout1 ==
  /\ sy.result = Running
  /\ sy.phase = "phase1"
  /\ Waited
  /\ SyncCommit(Rebase(phase1_timeout(World, now), 0), "timeout", Pong(0), now)
  /\ UNCHANGED <<rs, net, mp>>

ForeverTimeout2 ==
  /\ sy.result = Running
  /\ sy.phase = "phase2"
  /\ Waited
  /\ \E ids \in MapOrders(due_ids(World, now)) :
       SyncCommit(Rebase(phase2_timeout(World, ids, now), 0),
                  "timeout", Pong(0), now)
  /\ UNCHANGED <<rs, net, mp>>

NextForever ==
  \/ ForeverWait
  \/ \E msg \in ForeverMsgs : ForeverRecv(msg)
  \/ ForeverTimeout1
  \/ ForeverTimeout2

\* The clock does not stand still while the session runs: the remote side
\* cannot deliver messages without end within one tick, so the session waits
\* in recv again and again, and each wait ends with a message or a timeout.
SpecForever ==
  /\ InitSyncer
  /\ [][NextForever]_vars
  /\ WF_vars(ForeverWait)
  /\ []<>(~Waited)

\* A responder that is sent anything at any time; the clock moves in steps
\* long enough to wipe a penalty out.
SyncerHello ==
  Hello(1, GenesisId, Tip(0, GenesisId), 1001, "egg-node/syncer")

RequestMsgs ==
  { SyncerHello, Ping(1), Headers(<<>>),
    GetHeaders(GenesisId, DEFAULT_BATCH_MAX), GetHeaders(GenesisId, MaxBatch),
    GetHeaders(SId(SyncLen), MaxBatch), GetHeaders(hash_header(hOff), MaxBatch),
    GetBlock(SId(1)), GetBlock(hash_header(hOff)),
    BlockNotFound(SId(1)) }

RespInput(msg) ==
  /\ rs.result = Running
  /\ rs' = responder_recv([rs EXCEPT !.pm = Fresh(@)], ResponderState, msg, now)
  /\ UNCHANGED <<chainVars, peerVars, sy, net, mp>>

RespTick(d) ==
  /\ now + d <= MaxNow
  /\ now' = now + d
  /\ UNCHANGED <<pm, pout, plast, crossings, chainVars, nodeVars, poolVars>>

InitResponder ==
  /\ ChainInit
  /\ PeerInit("Outbound", FALSE, 0)
  /\ sy = [phase |-> "off", result |-> Running]
  /\ rs = responder_start(ResponderState, 0)
  /\ net = [toResp |-> <<>>, toSync |-> <<>>]
  /\ mp = new_mempool

NextResponder ==
  \/ \E msg \in RequestMsgs : RespInput(msg)
  \/ RespTick(6 * PENALTY_DECAY_EVERY)

SpecResponder == InitResponder /\ [][NextResponder]_vars

\* ------------------------------------------------------------ child index
\* A store with nothing in it and add_child called with any parent and child,
\* as in children_index_roundtrip_and_is_idempotent. last.calls is the list
\* of the calls made so far.
ChildParents == { 1, 2 }
ChildIds == { 2, 3, 4 }

InitChildren ==
  /\ smeta = EmptyStore.meta
  /\ hdr = EmptyStore.hdr
  /\ blk = EmptyStore.blk
  /\ bmeta = EmptyStore.bmeta
  /\ children = EmptyStore.children
  /\ canon = EmptyStore.canon
  /\ stip = EmptyStore.stip
  /\ tip = EmptyStore.tip
  /\ tip2 = EmptyStore.tip
  /\ mstLog = <<>>
  /\ last = [op |-> "new", parent |-> Zero, child |-> Zero, calls |-> <<>>]
  /\ PeerInit("Outbound", FALSE, 0)
  /\ NodeOff

AddChild(parent, child) ==
  /\ Len(last.calls) < MaxCalls
  /\ children' = add_child(Cur, parent, child).children
  /\ last' = [op |-> "add_child", parent |-> parent, child |-> child,
              calls |-> Append(last.calls, <<parent, child>>)]
  /\ UNCHANGED <<smeta, hdr, blk, bmeta, canon, stip, tip, tip2, mstLog,
                 peerVars, nodeVars, poolVars>>

NextChildren == \E parent \in ChildParents, child \in ChildIds : AddChild(parent, child)

SpecChildren == InitChildren /\ [][NextChildren]_vars

\* ------------------------------------------------------------ mempool calls
\* A new mempool and any calls of add_tx, remove and drain_fifo on it.
\* last.calls is the list of the calls made so far.
PoolTxs == { Tx1, Tx2, TxBadId }
PoolIds == { Tx1.id, Tx2.id }

InitPool ==
  /\ ChainInit
  /\ PeerInit("Outbound", FALSE, 0)
  /\ NodeOff

PoolCalls == IF "calls" \in DOMAIN last THEN last.calls ELSE <<>>

\* tx is the argument of add_tx, n the one of remove and of drain_fifo; out is
\* the result of add_tx, ret the transactions that remove or drain_fifo
\* returned.
PoolCall(op, tx, n, r, out, ret) ==
  /\ Len(PoolCalls) < MaxPoolCalls
  /\ mp' = r.mp
  /\ last' = [op |-> op, tx |-> tx, n |-> n, out |-> out, ret |-> ret,
              calls |-> Append(PoolCalls, [op |-> op, tx |-> tx, n |-> n])]
  /\ UNCHANGED <<smeta, hdr, blk, bmeta, children, canon, stip, tip, tip2,
                 mstLog, peerVars, nodeVars>>

AddTx(tx) ==
  PoolCall("add_tx", tx, 0, add_tx(mp, tx),
           IF add_tx(mp, tx).err = "none" THEN add_tx(mp, tx).ret
           ELSE add_tx(mp, tx).err, <<>>)

Remove(txid) ==
  PoolCall("remove", Tx1, txid, remove(mp, txid), "none", remove(mp, txid).ret)

DrainFifo(max) ==
  PoolCall("drain_fifo", Tx1, max, drain_fifo(mp, max), "none",
           drain_fifo(mp, max).ret)

NextPool ==
  \/ \E tx \in PoolTxs : AddTx(tx)
  \/ \E txid \in PoolIds : Remove(txid)
  \/ \E max \in 0 .. 2 : DrainFifo(max)

SpecPool == InitPool /\ [][NextPool]_vars

\* ------------------------------------------------------------ mining
\* An engine at genesis and a mempool that is filled and mined from, with an
\* easy difficulty, one that takes a second nonce and one that no hash
\* meets.
MineBits == { 0, 1, HashBits + 1 }

MineCommit(r, op) ==
  /\ smeta' = r.s.meta
  /\ hdr' = r.s.hdr
  /\ blk' = r.s.blk
  /\ bmeta' = r.s.bmeta
  /\ children' = r.s.children
  /\ canon' = r.s.canon
  /\ stip' = r.s.stip
  /\ tip' = r.s.tip
  /\ mstLog' = r.s.log
  /\ mp' = r.mp
  /\ last' = [op |-> op, id |-> IF r.err = "none" THEN r.ret ELSE Zero,
              out |-> IF r.err = "none" THEN "Ok" ELSE r.err]
  /\ UNCHANGED <<tip2, peerVars, nodeVars>>

MineAddTx(tx) ==
  MineCommit([s |-> Cur, mp |-> add_tx(mp, tx).mp, err |-> add_tx(mp, tx).err,
              ret |-> tx.id], "add_tx")

MineBlockFromMempool(bits) ==
  LET r == mine_block_from_mempool(mp, tip.hash, saturating_add1(tip.height), bits)
  IN MineCommit([s |-> Cur, mp |-> r.mp, err |-> r.err,
                 ret |-> IF r.err = "none" THEN header_id(r.ret[1].header)
                         ELSE Zero], "mine_block_from_mempool")

MineAndAppendOne(bits, kv_ok) ==
  /\ tip.height < MaxMined
  /\ MineCommit(mine_and_append_one(Cur, mp, bits, kv_ok), "mine_and_append_one")

NextMine ==
  \/ \E tx \in PoolTxs : MineAddTx(tx)
  \/ \E bits \in MineBits : MineBlockFromMempool(bits)
  \/ \E bits \in MineBits, kv_ok \in BOOLEAN : MineAndAppendOne(bits, kv_ok)

SpecMine == InitPool /\ [][NextMine]_vars

\* ------------------------------------------------------------ merkle root
\* merkle_root_txids applied to any list of up to MaxLeaves leaves, and to
\* the same list with its last leaf appended once more.
MerkleLeaves == { 1, 2, 3 }

RECURSIVE LeafLists(_)
LeafLists(n) ==
  IF n = 0 THEN { <<>> }
  ELSE LeafLists(n - 1)
       \cup { Append(l, x) : l \in { k \in LeafLists(n - 1) : Len(k) = n - 1 },
                             x \in MerkleLeaves }

InitMerkle ==
  /\ ChainInit
  /\ PeerInit("Outbound", FALSE, 0)
  /\ NodeOff

MerkleRoot(txids) ==
  /\ last.op = "open_or_init"
  /\ last' = [op |-> "merkle_root_txids", txids |-> txids,
              root |-> merkle_root_txids(txids),
              root_dup |-> IF txids = <<>> THEN Zero
                           ELSE merkle_root_txids(Append(txids, txids[Len(txids)]))]
  /\ UNCHANGED <<smeta, hdr, blk, bmeta, children, canon, stip, tip, tip2,
                 mstLog, peerVars, nodeVars, poolVars>>

NextMerkle == \E txids \in LeafLists(MaxLeaves) : MerkleRoot(txids)

SpecMerkle == InitMerkle /\ [][NextMerkle]_vars

\* ------------------------------------------------------------ properties
\* Fork-choice order as the specification states it: greater height, then
\* smaller hash.
FcBetter(hash, height, t) ==
  height > t.height \/ (height = t.height /\ hash < t.hash)

FcAtLeast(t, hash, height) ==
  (t.hash = hash /\ t.height = height) \/ FcBetter(t.hash, t.height, [hash |-> hash, height |-> height])

\* C1: maybe_set_tip replaces the tip (in memory and persisted) with the
\* candidate iff the candidate is higher, or equally high with a smaller hash;
\* otherwise both tips are retained.
C1_MaybeSetTipIff ==
  \A i \in 1 .. Len(mstLog) :
    LET e == mstLog[i]
    IN IF FcBetter(e.hash, e.height, e.before)
       THEN /\ e.after = ChainTip(e.height, e.hash)
            /\ e.safter = ChainTip(e.height, e.hash)
       ELSE /\ e.after = e.before
            /\ e.safter = e.sbefore

\* a call that replaced the tip on the tie-break, and one that retained it
C1_Witness ==
  /\ \E i \in 1 .. Len(mstLog) :
       /\ mstLog[i].height = mstLog[i].before.height
       /\ mstLog[i].hash < mstLog[i].before.hash
       /\ mstLog[i].after.hash = mstLog[i].hash
  /\ \E i \in 1 .. Len(mstLog) :
       /\ mstLog[i].height = mstLog[i].before.height
       /\ mstLog[i].hash > mstLog[i].before.hash
       /\ mstLog[i].after = mstLog[i].before

\* The engine state right after open_or_init on an empty store.
GenesisState == open_or_init(EmptyStore, MainSpec).s

\* The state after ingest_block on blocks[i], blocks[i+1], ... from state s.
RECURSIVE IngestAll(_, _, _)
IngestAll(s, blocks, i) ==
  IF i > Len(blocks) THEN s
  ELSE IngestAll(ingest_block(s, blocks[i]).s, blocks, i + 1)

\* One order of the valid blocks: every parent before its children.
ParentsFirst ==
  << Block(hA, <<>>), Block(hP, <<Tx1>>), Block(hB, <<>>), Block(hC, <<>>),
     Block(hQ, <<>>), Block(hZ, <<>>), Block(hR, <<>>), Block(hX, <<>>) >>

AllValidIngested ==
  \A block \in ValidBlocks : header_id(block.header) \in DOMAIN blk

\* C2: fork-choice determinism -- once every valid block has been ingested,
\* in whatever order, the tip is the one the parents-first order ends with.
C2_SameFinalTip ==
  AllValidIngested => tip = IngestAll(GenesisState, ParentsFirst, 1).tip

\* C3: reorg safety -- after any sequence of ingest calls
\* validate_best_chain() succeeds.
C3_BestChainValid == validate_best_chain(Cur).err = "none"

\* The id reached from `id` by following `steps` parent links of stored
\* headers; -1 when a header on the way is not stored.
RECURSIVE AncestorUp(_, _)
AncestorUp(id, steps) ==
  IF steps = 0 THEN id
  ELSE IF id \notin DOMAIN hdr THEN -1
  ELSE AncestorUp(hdr[id].parent, steps - 1)

\* C4: canonical index consistency -- canon[h] is set for every height up to
\* the tip and is the tip's ancestor at h, and block-meta heights step by one
\* along the canonical chain.
C4_CanonConsistent ==
  \A h \in 0 .. tip.height :
    /\ h \in DOMAIN canon
    /\ canon[h] = AncestorUp(tip.hash, tip.height - h)
    /\ h > 0 =>
         /\ canon[h] \in DOMAIN bmeta
         /\ bmeta[canon[h]].parent \in DOMAIN bmeta
         /\ bmeta[canon[h]].height = bmeta[bmeta[canon[h]].parent].height + 1

\* C5: the persisted tip references a stored header and a stored block, and
\* its height is that header's height.
C5_TipHasHeaderAndBlock ==
  /\ stip.hash \in DOMAIN hdr
  /\ stip.hash \in DOMAIN blk
  /\ stip.height = hdr[stip.hash].height

\* the tip has moved off genesis while header-only entries exist
C5_Witness ==
  /\ stip.height >= 2
  /\ last.op = "ingest_block"
  /\ \E id \in DOMAIN hdr : id \notin DOMAIN blk

\* C6: a block rejected by ingest_block with a validation error leaves the
\* store exactly as it was.
C6_RejectLeavesStore ==
  [][ ( /\ last'.op = "ingest_block"
        /\ last'.out \in { "InvalidPow", "MerkleMismatch", "InvalidTxId",
                           "GenesisIdMismatch", "HeaderMismatch",
                           "HeightNotParentPlusOne" } )
      => UNCHANGED storeVars ]_vars

\* C7: ingest_block on a block whose header and block are already stored
\* returns AlreadyKnown and changes neither the store nor the in-memory tip.
C7_ReingestIsNoop ==
  [][ ( /\ last'.op = "ingest_block"
        /\ last'.id \in DOMAIN hdr
        /\ last'.id \in DOMAIN blk )
      => ( /\ last'.out = "AlreadyKnown"
           /\ UNCHANGED <<storeVars, tip>> ) ]_vars

\* a stored non-genesis block was ingested again
C7_Witness ==
  /\ last.op = "ingest_block"
  /\ last.out = "AlreadyKnown"
  /\ last.id # GenesisId
  /\ last.id \in DOMAIN blk

\* C8: ingest_header never changes the tip (in memory or persisted) nor any
\* canonical height -> hash entry, whatever it returns.
C8_HeaderKeepsTip ==
  [][ last'.op = "ingest_header"
      => /\ tip' = tip
         /\ stip' = stip
         /\ canon' = canon ]_vars

\* ingest_header completed a chain of headers down to genesis that is higher
\* than the tip
C8_Witness ==
  /\ last.op = "ingest_header"
  /\ last.out = "StoredConnected"
  /\ hdr[last.id].height > tip.height
  /\ AncestorUp(last.id, hdr[last.id].height) = GenesisId

\* The ids listed under children[p].
Kids(p) == { get_children(Cur, p)[i] : i \in 1 .. Len(get_children(Cur, p)) }

\* A link the connect pipeline follows: the child has header and block stored
\* and its height is the parent's height + 1.
ConnLink(p, c) ==
  /\ p \in DOMAIN hdr
  /\ c \in DOMAIN hdr
  /\ c \in DOMAIN blk
  /\ hdr[c].height = hdr[p].height + 1

\* The ids reachable from S through such links.
RECURSIVE Reach(_)
Reach(S) ==
  LET N == S \cup { c \in UNION { Kids(p) : p \in S } :
                      \E p \in S : c \in Kids(p) /\ ConnLink(p, c) }
  IN IF N = S THEN S ELSE Reach(N)

\* C9: orphan resolution -- when ingest_block stored b under a present parent
\* and returned Ok, b and every descendant reachable from b was offered to
\* fork choice, and the tip is at least as good as each of them.
C9_DescendantsOffered ==
  ( /\ last.op = "ingest_block"
    /\ last.out \in { "StoredConnected", "NewTip" } )
  => \A d \in Reach({last.id}) :
       /\ \E i \in 1 .. Len(mstLog) : mstLog[i].hash = d
       /\ FcAtLeast(tip, d, hdr[d].height)

\* the arriving block connected a formerly orphaned child and grandchild
C9_Witness ==
  /\ last.op = "ingest_block"
  /\ last.out \in { "StoredConnected", "NewTip" }
  /\ \E c \in Reach({last.id}), g \in Reach({last.id}) :
       /\ hdr[c].parent = last.id
       /\ hdr[g].parent = c


\* C10: get_headers_after(start_hash, max) is empty when start_hash is not
\* canonical at a height 0..tip.height or max = 0; otherwise, with start at
\* canonical height s, it is the headers canon[s+1], canon[s+2], ... of the
\* canonical chain, min(max, tip.height - s) of them.
C10_HeadersAfter ==
  \A start_hash \in Hash, max \in 0 .. MaxReq :
    LET r == get_headers_after(Cur, start_hash, max)
        hs == { h \in 0 .. tip.height : h \in DOMAIN canon /\ canon[h] = start_hash }
    IN /\ r.err = "none"
       /\ IF hs = {} \/ max = 0
          THEN r.ret = <<>>
          ELSE LET s == CHOOSE h \in hs : \A g \in hs : h <= g
                   n == Min(max, tip.height - s)
               IN /\ Len(r.ret) = n
                  /\ \A k \in 1 .. n :
                       /\ (s + k) \in DOMAIN canon
                       /\ canon[s + k] \in DOMAIN hdr
                       /\ r.ret[k] = hdr[canon[s + k]]
                       /\ canon[s + k] = AncestorUp(tip.hash, tip.height - (s + k))

\* The chain spec a re-open was called with.
ReopenedWith(spec) == last'.op = "reopen" /\ last'.id = hash_chainspec(spec)

\* What open_or_init writes to a store that has no tip.
FreshOpenWritesGenesis(r) ==
  /\ r.err = "none"
  /\ r.s.meta = << ChainMeta(MainSpec.chain_id, GenesisId, hash_chainspec(MainSpec)) >>
  /\ r.s.hdr = (GenesisId :> GenesisHeader)
  /\ r.s.blk = (GenesisId :> Block(GenesisHeader, <<>>))
  /\ r.s.bmeta = (GenesisId :> BlockMeta(Zero, 0))
  /\ r.s.canon = (0 :> GenesisId)
  /\ r.s.has_tip
  /\ r.s.stip = ChainTip(0, GenesisId)
  /\ r.s.tip = ChainTip(0, GenesisId)

\* C11: open_or_init on a store with no tip writes meta, the genesis header,
\* block, block-meta, canon[0] and tip = (0, genesis_id); re-opening with the
\* same chain spec returns the stored tip (and succeeds without a write when
\* the tip is indexed, as it is on the fresh store); re-opening with a chain
\* spec that derives another meta fails with MetaMismatch and writes nothing
\* (MetaMissing when the meta is absent); the stored meta never changes.
C11_OpenOrInit ==
  [][ /\ FreshOpenWritesGenesis(open_or_init(EmptyStore, MainSpec))
      /\ smeta' = smeta
      /\ \A spec \in SpecInputs :
           /\ validate_chainspec(spec)
                => open_or_init([Cur EXCEPT !.meta = <<>>], spec).err = "MetaMissing"
           /\ ( ReopenedWith(spec) /\ validate_chainspec(spec) )
                => IF expected_meta(spec) = smeta[1]
                   THEN /\ last'.out = "Opened" => ( tip' = stip /\ stip' = stip )
                        /\ ( stip.hash \in DOMAIN bmeta /\ stip.height \in DOMAIN canon )
                             => ( last'.out = "Opened" /\ UNCHANGED storeVars )
                   ELSE /\ last'.out = "MetaMismatch"
                        /\ UNCHANGED <<storeVars, tip>> ]_vars

\* a populated store was re-opened with a chain spec of another genesis time
C11_Witness ==
  /\ last.op = "reopen"
  /\ last.id = hash_chainspec(OtherTimeSpec)
  /\ last.out = "MetaMismatch"
  /\ stip.height > 0

\* What ingest_block (result r) may do to the stored headers and blocks.
BlockWriteOnce(block, r) ==
  /\ \A k \in DOMAIN hdr : r.s.hdr[k] = hdr[k]
  /\ \A k \in DOMAIN blk : r.s.blk[k] = blk[k]
  /\ r.err = "HeaderMismatch" => r.s = Cur
  /\ ( /\ header_id(block.header) \in DOMAIN hdr
       /\ header_id(block.header) \notin DOMAIN blk
       /\ hdr[header_id(block.header)] # block.header
       /\ block.header.height # 0
       /\ verify_block_merkle(block) = "none"
       /\ pow_valid(block.header) )
     => r.err = "HeaderMismatch"

HeaderWriteOnce(r) ==
  /\ \A k \in DOMAIN hdr : r.s.hdr[k] = hdr[k]
  /\ r.s.blk = blk

SessionOrder ==
  << Block(hA, <<>>), Block(hB, <<>>), Block(hC, <<>>), Block(hP, <<Tx1>>),
     Block(hQ, <<>>) >>

AllSessionBlocksIngested ==
  \A block \in SessionBlocks : header_id(block.header) \in DOMAIN blk

\* C13: multi-session ingest -- once both sessions have ingested all the
\* blocks between them, the persisted tip is the one a single session ends
\* with, whichever session ingested which block.
C13_SessionsSameTip ==
  AllSessionBlocksIngested => stip = IngestAll(GenesisState, SessionOrder, 1).stip

\* ------------------------------------------------------------ peer properties
\* The handshake transitions the specification allows.
HsEdges ==
  { <<"Init", "SentHello">>, <<"Init", "ReceivedHello">>,
    <<"SentHello", "Ready">>, <<"ReceivedHello", "Ready">> }

\* hs before a call followed by the values the call assigned to it
HsPath == << pm.hs >> \o pm'.hs_log

LocalHello ==
  Hello(Local.chain_id, Local.genesis_id, Local.tip, Local.node_nonce, Local.agent)
LocalHelloAck ==
  HelloAck(Local.chain_id, Local.genesis_id, Local.tip, Local.node_nonce,
           Local.agent)

Called(op) == plast'.op = op /\ now' = now /\ ~is_banned(pm)
Received(type) == Called("on_message") /\ plast'.msg.type = type

\* C14: the handshake state only moves along Init -> {SentHello,
\* ReceivedHello} -> Ready; start() on an Outbound machine in Init emits one
\* Hello and moves to SentHello, any other start() emits nothing; Hello stores
\* the remote info, emits HelloAck with the local info and moves to Ready;
\* HelloAck moves to Ready; Ready is reached only from SentHello or
\* ReceivedHello and is never left.
C14_Handshake ==
  [][ /\ \A i \in 1 .. (Len(HsPath) - 1) :
           HsPath[i] = HsPath[i + 1] \/ <<HsPath[i], HsPath[i + 1]>> \in HsEdges
      /\ pm.hs = "Ready" => pm'.hs = "Ready"
      /\ Called("start")
           => IF pm.role = "Outbound" /\ pm.hs = "Init"
              THEN pout' = << LocalHello >> /\ pm'.hs = "SentHello"
              ELSE pout' = <<>> /\ pm'.hs = pm.hs
      /\ Received("Hello")
           => /\ pm'.remote = << Remote >>
              /\ pout'[1] = LocalHelloAck
              /\ pm'.hs = "Ready"
      /\ Received("HelloAck") => pm'.hs = "Ready" ]_vars

GetHeadersIn(out) == { i \in 1 .. Len(out) : out[i].type = "GetHeaders" }

\* C15: on reaching Ready with sync enabled the machine emits GetHeaders
\* {start = local tip hash, max = batch_max}; every GetHeaders produced by a
\* Hello or HelloAck starts at the local tip hash; with sync disabled the
\* machine never emits GetHeaders.
C15_InitialGetHeaders ==
  [][ /\ ( Received("Hello") \/ Received("HelloAck") )
           => /\ \A i \in GetHeadersIn(pout') :
                   /\ pout'[i].start = pm.local.tip.hash
                   /\ pout'[i].max = pm.sync_batch_max
              /\ ( pm.sync_enabled /\ pm.hs # "Ready" )
                   => GetHeadersIn(pout') # {}
      /\ ( now' = now /\ ~pm.sync_enabled ) => GetHeadersIn(pout') = {} ]_vars

\* C16: on Headers an unbanned machine adds the hash of every header of the
\* batch to known-header-ids, sync enabled or not; with sync enabled and a
\* non-empty batch it sets the cursor to the hash of the last header and emits
\* exactly one GetHeaders {start = cursor, max = batch_max}; otherwise it emits
\* nothing and leaves the cursor unchanged.
C16_OnHeaders ==
  [][ Received("Headers")
      => /\ pm'.known_header_ids
              = pm.known_header_ids
                  \cup { hash_header(plast'.msg.headers[i]) :
                           i \in 1 .. Len(plast'.msg.headers) }
         /\ IF pm.sync_enabled /\ plast'.msg.headers # <<>>
            THEN /\ pm'.sync_cursor_start
                      = hash_header(plast'.msg.headers[Len(plast'.msg.headers)])
                 /\ pout' = << GetHeaders(pm'.sync_cursor_start, pm.sync_batch_max) >>
            ELSE /\ pout' = <<>>
                 /\ pm'.sync_cursor_start = pm.sync_cursor_start ]_vars

\* a two-header batch moved the cursor of a syncing machine to the second
\* header, and a request from there went out
C16_Witness ==
  /\ plast.op = "on_message"
  /\ plast.msg = Headers(<<hA, hB>>)
  /\ pm.sync_enabled
  /\ pm.sync_cursor_start = hash_header(hB)
  /\ pout = << GetHeaders(hash_header(hB), pm.sync_batch_max) >>
  /\ hash_header(hA) \in pm.known_header_ids

\* The score after lazy decay at the current time.
Decayed(score, last_decay) ==
  IF now - last_decay >= 10
  THEN IF score - ((now - last_decay) \div 10) * 10 > 0
       THEN score - ((now - last_decay) \div 10) * 10
       ELSE 0
  ELSE score

\* C17: block reply discipline -- for a BlockFound or BlockNotFound received by
\* an unbanned machine exactly the first failing check applies: id not
\* inflight, +55; else id not in known-header-ids, +65; else BlockFound whose
\* header does not hash to id, +70; a BlockFound passing all three adds
\* nothing.  A reply whose id was inflight removes it from the inflight set.
C17_ReplyDiscipline ==
  [][ ( Received("BlockFound") \/ Received("BlockNotFound") )
      => IF plast'.msg.id \notin pm.inflight_blocks
         THEN /\ pm'.penalty_score
                   = Decayed(pm.penalty_score, pm.penalty_last_decay) + 55
              /\ pm'.inflight_blocks = pm.inflight_blocks
         ELSE /\ pm'.inflight_blocks = pm.inflight_blocks \ {plast'.msg.id}
              /\ IF plast'.msg.id \notin pm.known_header_ids
                 THEN pm'.penalty_score
                        = Decayed(pm.penalty_score, pm.penalty_last_decay) + 65
                 ELSE IF plast'.msg.type = "BlockFound"
                 THEN IF hash_header(plast'.msg.block.header) # plast'.msg.id
                      THEN pm'.penalty_score
                             = Decayed(pm.penalty_score, pm.penalty_last_decay) + 70
                      ELSE pm'.penalty_score
                             = Decayed(pm.penalty_score, pm.penalty_last_decay)
                 ELSE TRUE ]_vars

\* a requested block came back under a known id with another block's header
C17_Witness ==
  /\ plast.op = "on_message"
  /\ plast.msg = BlockFound(3, Block(hB, <<>>))
  /\ Len(pm.pen_log) = 1
  /\ pm.pen_log[1].points = 70
  /\ 3 \notin pm.inflight_blocks
  /\ ~is_banned(pm)

PenaltySum(log) ==
  LET RECURSIVE sum(_)
      sum(i) == IF i = 0 THEN 0 ELSE log[i].points + sum(i - 1)
  IN sum(Len(log))

\* C18: a BlockNotFound that passes the inflight and known-header checks adds
\* 5, plus 25 if the per-id counter now exceeds 2, plus 40 the first time the
\* set of distinct not-found ids grows from 16 to 17; over a whole session the
\* 40 points are applied at that first crossing only.
C18_NotFoundPenalty ==
  [][ /\ crossings' <= 1
      /\ ( /\ Received("BlockNotFound")
           /\ plast'.msg.id \in pm.inflight_blocks
           /\ plast'.msg.id \in pm.known_header_ids
           /\ ~is_banned(pm') )
         => pm'.penalty_score
              = Decayed(pm.penalty_score, pm.penalty_last_decay) + 5
                + ( IF notfound_count(pm, plast'.msg.id) + 1 > 2 THEN 25 ELSE 0 )
                + ( IF /\ crossings = 0
                       /\ Cardinality(pm.notfound_distinct_ids) = 16
                       /\ Cardinality(pm'.notfound_distinct_ids) = 17
                    THEN 40 ELSE 0 ) ]_vars

\* C19: lazy decay -- when an unbanned machine processes a message at time now
\* with elapsed = now - last_decay >= 10 s the score is reduced by
\* floor(elapsed / 10) * 10, clamped at 0, and last_decay becomes now; with
\* elapsed < 10 s neither changes; the decay comes before the penalties of
\* that message.
C19_LazyDecay ==
  [][ Called("on_message")
      => /\ pm'.penalty_score
              = Decayed(pm.penalty_score, pm.penalty_last_decay)
                + PenaltySum(pm'.pen_log)
         /\ pm'.penalty_last_decay
              = IF now - pm.penalty_last_decay >= 10 THEN now
                ELSE pm.penalty_last_decay ]_vars

\* a score of 55 was wiped out by a message that came 60 s or more later
C19_Witness ==
  /\ plast.op = "on_message"
  /\ plast.msg.type = "Ping"
  /\ plast.score = 55
  /\ pm.penalty_score = 0
  /\ pm.penalty_last_decay = now
  /\ now >= 60

PeerFields(m) == [m EXCEPT !.hs_log = <<>>, !.pen_log = <<>>]

\* C20: a penalty that brings the score to 100 or more bans the machine with
\* the reason of that penalty; the ban is sticky and its reason never changes;
\* a banned machine answers every inbound message with an empty list, changes
\* no state on it, and emits no message from start, on_message or
\* request_block.
C20_BanSticky ==
  [][ /\ ( ~is_banned(pm) /\ pm'.penalty_score >= 100 /\ pm'.pen_log # <<>> )
           => /\ is_banned(pm')
              /\ pm'.banned[1].why = pm'.pen_log[Len(pm'.pen_log)].why
      /\ is_banned(pm')
           => pm'.penalty_score >= 100
      /\ is_banned(pm)
           => /\ pm'.banned = pm.banned
              /\ ( now' = now /\ plast'.op = "on_message" )
                   => ( pout' = <<>> /\ PeerFields(pm') = PeerFields(pm) )
              /\ ( now' = now /\ plast'.op \in { "start", "request_block" } )
                   => pout' = <<>> ]_vars

\* C21: a ban is never immediate -- an unbanned machine whose score is 0
\* is still unbanned after any single inbound message; one unsolicited
\* BlockFound gives 55 and no ban, a second one before a decay step elapses
\* reaches the threshold and bans, and every ban reason contains "threshold".
C21_NoImmediateBan ==
  [][ /\ ( Called("on_message") /\ pm.penalty_score = 0 ) => ~is_banned(pm')
      /\ ( /\ Received("BlockFound")
           /\ plast'.msg.id \notin pm.inflight_blocks
           /\ now - pm.penalty_last_decay < 10 )
         => /\ pm.penalty_score = 0
                 => ( pm'.penalty_score = 55 /\ ~is_banned(pm') )
            /\ pm.penalty_score = 55
                 => /\ pm'.penalty_score >= 100
                    /\ is_banned(pm')
                    /\ pm'.banned[1].text = "penalty threshold exceeded"
      /\ is_banned(pm') => pm'.banned[1].text = "penalty threshold exceeded" ]_vars

\* the first unsolicited BlockFound on a clean machine: 55 points, no ban
C21_Witness ==
  /\ plast.op = "on_message"
  /\ plast.msg.type = "BlockFound"
  /\ plast.score = 0
  /\ pm.penalty_score = 55
  /\ pm.pen_log = << [points |-> 55, why |-> "unsolicited block reply"] >>
  /\ ~is_banned(pm)

\* ------------------------------------------------------------ node properties
InPhase2 == sy.phase = "phase2" /\ sy.result = Running

\* C22: in phase 2 of run_syncer_once the inflight map never holds more than
\* BLOCK_WINDOW = 16 ids (so an id is popped and requested only while fewer
\* than 16 are inflight), and the ids are first requested in the order of the
\* downloaded header list: the ids requested so far followed by the pending
\* ones are the downloaded ids in download order, duplicates dropped.
C22_Window ==
  sy.phase \in { "phase2", "done" }
  => /\ Cardinality(DOMAIN sy.inflight) <= 16
     /\ sy.first \o sy.pending = FirstOccurrences(sy.downloaded_ids, 1, <<>>)
     /\ \A i \in 1 .. Len(sy.first) : sy.first[i] \in DOMAIN sy.sends

\* the window is full, one more id was requested after a block arrived, and
\* an id is still waiting
C22_Witness ==
  /\ InPhase2
  /\ Cardinality(DOMAIN sy.inflight) = 16
  /\ Len(sy.first) = 17
  /\ sy.pending # <<>>

\* C23: bounded retries -- in one session GetBlock{id} is sent at most 3
\* times for any id (1 + MAX_BLOCK_RETRIES), resends after a timeout and after
\* BlockNotFound counted together; when a further resend would be needed, a
\* BlockNotFound or a 2 s timeout with retries already 2, the session fails.
C23_BoundedRetries ==
  [][ /\ \A id \in DOMAIN sy'.sends : sy'.sends[id] <= 3
      /\ ( /\ InPhase2
           /\ plast'.op = "recv"
           /\ plast'.msg.type = "BlockNotFound"
           /\ plast'.msg.id \in DOMAIN sy.inflight
           /\ sy.inflight[plast'.msg.id].retries = 2 )
         => sy'.result.kind = "Protocol"
      /\ ( /\ InPhase2
           /\ plast'.op = "timeout"
           /\ \E id \in DOMAIN sy.inflight :
                /\ now' - sy.inflight[id].last_sent >= 2
                /\ sy.inflight[id].retries = 2 )
         => sy'.result.kind = "Protocol"
      /\ ( InPhase2 /\ sy'.result = Running )
         => \A id \in DOMAIN sy.inflight \cap DOMAIN sy'.inflight :
              LET resent == sy'.sends[id] - sy.sends[id]
              IN /\ resent \in { 0, 1 }
                 /\ sy'.inflight[id].retries = sy.inflight[id].retries + resent ]_vars

\* an id has been requested three times and the session still runs
C23_Witness ==
  /\ InPhase2
  /\ \E id \in DOMAIN sy.inflight :
       /\ sy.sends[id] = 3
       /\ sy.inflight[id].retries = 2

\* C24: in phase 2 a received BlockFound{id, block} is passed to ingest_block
\* only if id is in the inflight map, the header of id is stored and
\* hash(block.header) = id; otherwise the session ends with a protocol error
\* and nothing is ingested.  On acceptance id leaves the inflight map and the
\* idle timer is reset.  Nothing else is ingested in phase 2.
C24_BlockFoundChecks ==
  [][ InPhase2
      => IF /\ plast'.op = "recv"
            /\ plast'.msg.type = "BlockFound"
            /\ plast'.msg.id \in DOMAIN sy.inflight
            /\ plast'.msg.id \in DOMAIN hdr
            /\ hash_header(plast'.msg.block.header) = plast'.msg.id
            /\ ~is_banned(pm')
         THEN /\ sy'.ingested = Append(sy.ingested, plast'.msg.id)
              /\ plast'.msg.id \notin DOMAIN sy'.inflight
              /\ sy'.result.kind # "Chain"
                   => /\ sy'.last_progress = now'
                      /\ blk' = (plast'.msg.id :> plast'.msg.block) @@ blk
         ELSE /\ sy'.ingested = sy.ingested
              /\ blk' = blk
              /\ ( plast'.op = "recv" /\ plast'.msg.type = "BlockFound" )
                   => sy'.result.kind = "Protocol" ]_vars

\* a requested block arrived and was ingested, the session goes on
C24_Witness ==
  /\ sy.phase = "phase2"
  /\ sy.result = Running
  /\ plast.op = "recv"
  /\ plast.msg.type = "BlockFound"
  /\ sy.ingested # <<>>
  /\ sy.ingested[Len(sy.ingested)] = plast.msg.id
  /\ plast.msg.id \in DOMAIN blk
  /\ sy.last_progress = now

\* The syncer returned Ok holding what the responder holds.
SyncDone ==
  /\ sy.result = NodeOk
  /\ sy.phase = "done"
  /\ is_ready(pm)
  /\ is_ready(rs.pm)
  /\ sy.pending = <<>>
  /\ DOMAIN sy.inflight = {}
  /\ tip = ResponderState.tip
  /\ stip = ResponderState.stip
  /\ \A i \in 0 .. SyncLen :
       /\ SId(i) \in DOMAIN hdr
       /\ SId(i) \in DOMAIN blk
       /\ hdr[SId(i)] = ResponderState.hdr[SId(i)]
       /\ blk[SId(i)] = ResponderState.blk[SId(i)]

\* C25: headers-first sync liveness -- with a responder that holds genesis
\* and a chain of N blocks and answers every request promptly, a syncer that
\* starts from genesis eventually returns Ok: both sides Ready, pending and
\* inflight empty, validate_best_chain passed, the syncer's tip equal to the
\* responder's and every header and block of the chain stored.
C25_SyncCompletes == <>SyncDone

\* the session is over and the syncer holds the whole chain, fetched block by
\* block
C25_Witness ==
  /\ SyncDone
  /\ Len(sy.ingested) = SyncLen
  /\ tip.height = SyncLen
  /\ rs.result = NodeOk

\* The reply the responder owes for msg.
OwnReply(msg) ==
  IF msg.type = "GetHeaders"
  THEN << Headers(headers_or_default(
                    get_headers_after(ResponderState, msg.start, msg.max))) >>
  ELSE IF msg.type = "GetBlock"
  THEN IF msg.id \in DOMAIN ResponderState.blk
       THEN << BlockFound(msg.id, ResponderState.blk[msg.id]) >>
       ELSE << BlockNotFound(msg.id) >>
  ELSE <<>>

\* C26: the responder answers GetHeaders and GetBlock only while its machine
\* is Ready; a request received before the handshake gets no reply.  When
\* Ready, GetHeaders{start, max} gets one Headers built from
\* get_headers_after(start, max) and GetBlock{id} gets exactly one reply,
\* BlockFound{id, block} if the block is stored and BlockNotFound{id}
\* otherwise; what the machine returned for the message is sent first.
C26_ResponderReplies ==
  [][ ( rs.result = Running /\ rs'.turn # rs.turn )
      => /\ rs'.sent
              = rs'.machine_out
                \o ( IF is_ready(rs'.pm) /\ ~is_banned(rs'.pm)
                     THEN OwnReply(rs'.msg) ELSE <<>> )
         /\ ( rs'.msg.type \in { "GetHeaders", "GetBlock" } /\ ~is_ready(rs.pm) )
              => rs'.sent = <<>>
         /\ ( rs'.msg = GetHeaders(GenesisId, MaxBatch) /\ is_ready(rs.pm) )
              => rs'.sent = << Headers(SyncChain(MaxBatch)) >>
         /\ ( rs'.msg = GetHeaders(SId(SyncLen), MaxBatch) /\ is_ready(rs.pm) )
              => rs'.sent = << Headers(<<>>) >> ]_vars

\* a Ready responder was asked for a block it holds and sent it
C26_Witness ==
  /\ rs.result = Running
  /\ is_ready(rs.pm)
  /\ rs.msg = GetBlock(SId(1))
  /\ rs.sent = << BlockFound(SId(1), Block(hS(1), <<>>)) >>


\* ------------------------------------------------------------ store properties
\* The children named for parent p in the calls made so far, in call order.
RECURSIVE CalledChildren(_, _, _)
CalledChildren(calls, p, i) ==
  IF i > Len(calls) THEN <<>>
  ELSE IF calls[i][1] = p
  THEN <<calls[i][2]>> \o CalledChildren(calls, p, i + 1)
  ELSE CalledChildren(calls, p, i + 1)

Listed(s, p, c) ==
  \E i \in 1 .. Len(get_children(s, p)) : get_children(s, p)[i] = c

\* C27: child-index idempotence -- after any sequence of add_child calls
\* get_children(p) is the children named for p, each once, in the order of
\* their first insertion, and add_child(p, c) with c already listed leaves
\* the stored lists as they are.
C27_ChildIndex ==
  [][ last'.op = "add_child" =>
        /\ \A p \in ChildParents \cup ChildIds :
             get_children([children |-> children'], p)
               = FirstOccurrences(CalledChildren(last'.calls, p, 1), 1, <<>>)
        /\ Listed(Cur, last'.parent, last'.child) => children' = children
    ]_vars

\* a child was added a second time after another one, to a parent that has
\* two children
C27_Witness ==
  /\ last.op = "add_child"
  /\ Len(get_children(Cur, last.parent)) = 2
  /\ get_children(Cur, last.parent)[1] = last.child
  /\ Len(CalledChildren(last.calls, last.parent, 1)) = 3


\* ------------------------------------------------------------ merkle properties
OddLeaves == last.op = "merkle_root_txids" /\ Len(last.txids) % 2 = 1

RECURSIVE FifoPool(_, _, _)
FifoPool(calls, i, pool) ==
  IF i > Len(calls) THEN pool
  ELSE LET c == calls[i]
       IN IF c.op = "add_tx"
          THEN IF validate_tx_id(c.tx) /\ \A k \in 1 .. Len(pool) : pool[k].id # c.tx.id
               THEN FifoPool(calls, i + 1, Append(pool, c.tx))
               ELSE FifoPool(calls, i + 1, pool)
          ELSE IF c.op = "remove"
          THEN FifoPool(calls, i + 1, SelectSeq(pool, LAMBDA tx : tx.id # c.n))
          ELSE FifoPool(calls, i + 1, SubSeq(pool, Min(c.n, Len(pool)) + 1, Len(pool)))

FirstOf(pool, max) == SubSeq(pool, 1, Min(max, Len(pool)))

\* C29: mempool FIFO -- after any calls of add_tx, remove and drain_fifo,
\* drain_fifo(max) returns the first max (or all, if fewer) of the
\* transactions in the pool in the order of their latest add, and what it
\* returned is in the pool no more.
C29_MempoolFifo ==
  [][ last'.op = "drain_fifo" =>
        /\ last'.ret = FirstOf(FifoPool(PoolCalls, 1, <<>>), last'.n)
        /\ \A k \in 1 .. Len(last'.ret) :
             /\ contains(mp, last'.ret[k].id)
             /\ ~contains(mp', last'.ret[k].id)
    ]_vars


\* ------------------------------------------------------------ mining properties
MineCalled ==
  last'.op \in { "mine_block_from_mempool", "mine_and_append_one" }

\* C30: transactions are not lost on failure -- when mine_block_from_mempool
\* finds no nonce, or mine_and_append_one mines a block and ingest_block
\* fails, the mempool afterwards holds every transaction it held before the
\* call.
C30_NoTxLost ==
  [][ (MineCalled /\ last'.out # "Ok") =>
        \A txid \in DOMAIN mp.by_id :
          contains(mp', txid) /\ mp'.by_id[txid] = mp.by_id[txid]
    ]_vars


\* ------------------------------------------------------------ header ingest properties
\* What ingest_header(header) has done to the store and returned.
HeaderIngested(header) ==
  LET id == header_id(header)
      parent == header.parent
  IN IF ~pow_valid(header)
     THEN last'.out = "InvalidPow" /\ UNCHANGED storeVars
     ELSE IF id \in DOMAIN hdr
     THEN last'.out = "AlreadyKnown" /\ UNCHANGED storeVars
     ELSE /\ id \in DOMAIN hdr' /\ hdr'[id] = header
          /\ id \in DOMAIN bmeta'
          /\ bmeta'[id] = BlockMeta(parent, header.height)
          /\ Listed([children |-> children'], parent, id)
          /\ last'.out \in { "StoredOrphan", "StoredConnected",
                             "HeightNotParentPlusOne" }
          /\ last'.out = "StoredOrphan" <=> parent \notin DOMAIN hdr
          /\ last'.out = "StoredConnected"
               <=> ( /\ parent \in DOMAIN hdr
                     /\ header.height = hdr[parent].height + 1 )

\* C31: ingest_header on a PoW-valid header of height > 0 that is not stored
\* writes the header, its block-meta and the children entry of its parent and
\* returns StoredOrphan exactly when the parent header is absent and
\* StoredConnected exactly when it is present and one lower
\* (HeightNotParentPlusOne otherwise); a stored header returns AlreadyKnown
\* and a header failing PoW InvalidPow, both with no write.
C31_IngestHeaderOutcome ==
  [][ \A header \in HeaderInputs :
        (header.height > 0 /\ IngestHeader(header)) => HeaderIngested(header)
    ]_vars

\* a header was stored as an orphan and its parent's header then connected
C31_Witness ==
  /\ last.op = "ingest_header"
  /\ last.out = "StoredConnected"
  /\ \E c \in DOMAIN hdr :
       /\ hdr[c].parent = last.id
       /\ c \notin DOMAIN blk
       /\ Listed(Cur, last.id, c)


\* ------------------------------------------------------------ reorg properties
\* The id reached from id by following steps parent links in the header map
\* headers; -1 when a header on the way is not in it.
RECURSIVE AncestorIn(_, _, _)
AncestorIn(headers, id, steps) ==
  IF steps = 0 THEN id
  ELSE IF id \notin DOMAIN headers THEN -1
  ELSE AncestorIn(headers, headers[id].parent, steps - 1)

\* Height h is at or below the fork point of the tips O and N: both have the
\* same ancestor there.
AtOrBelowFork(headers, O, N, h) ==
  /\ h <= O.height
  /\ AncestorIn(headers, N.hash, N.height - h) # -1
  /\ AncestorIn(headers, N.hash, N.height - h)
       = AncestorIn(headers, O.hash, O.height - h)

SameAt(f, g, x) ==
  IF x \in DOMAIN f THEN x \in DOMAIN g /\ g[x] = f[x] ELSE x \notin DOMAIN g

\* The move of the tip that log entry e records kept to the frame: above the
\* fork point and up to the new tip canon holds the new tip's ancestors,
\* everywhere else it is as before.
ReorgFrame(headers, e) ==
  \A h \in 0 .. e.after.height + 1 :
    IF h > e.after.height \/ AtOrBelowFork(headers, e.before, e.after, h)
    THEN SameAt(e.cbefore, e.cafter, h)
    ELSE AncestorIn(headers, e.after.hash, e.after.height - h) # -1
         => /\ h \in DOMAIN e.cafter
            /\ e.cafter[h] = AncestorIn(headers, e.after.hash, e.after.height - h)

\* C32: reorg frame -- when the tip moves from O to N with fork point A,
\* canon[h] becomes N's ancestor at h for the heights above A up to N, canon
\* is unchanged at and below A, and no stored header, block or block-meta is
\* deleted or modified.
C32_ReorgFrame ==
  [][ last'.op = "ingest_block" =>
        /\ \A i \in 1 .. Len(mstLog') :
             mstLog'[i].after # mstLog'[i].before => ReorgFrame(hdr', mstLog'[i])
        /\ \A id \in DOMAIN hdr : SameAt(hdr, hdr', id)
        /\ \A id \in DOMAIN blk : SameAt(blk, blk', id)
        /\ \A id \in DOMAIN bmeta : SameAt(bmeta, bmeta', id)
    ]_vars


\* ------------------------------------------------------------ open properties
\* The block k parent links below the tip has its derived index entries.
IndexedBelowTip(k) ==
  LET id == AncestorIn(hdr', tip'.hash, k)
  IN id \in DOMAIN hdr' =>
       /\ id \in DOMAIN bmeta'
       /\ (tip'.height - k) \in DOMAIN canon'
       /\ canon'[tip'.height - k] = id
       /\ hdr'[id].height > 0
            => Listed([children |-> children'], hdr'[id].parent, id)

\* C33: after a successful open_or_init on a populated store every block on
\* the path from the tip back to genesis has its block-meta, is canon at its
\* height and is listed among the children of its parent.
C33_OpenRebuildsIndexes ==
  [][ (last'.op = "reopen" /\ last'.out = "Opened") =>
        \A k \in 0 .. tip'.height : IndexedBelowTip(k)
    ]_vars

\* ------------------------------------------------- timeout resend properties
\* the inflight ids whose last send is at least 2 s old when the tick ends
DueAtTick == { id \in DOMAIN sy.inflight : now' - sy.inflight[id].last_sent >= 2 }

Resent(id) ==
  /\ id \in DOMAIN sy'.inflight
  /\ sy'.inflight[id] = InflightEntry(sy.inflight[id].retries + 1, now')
  /\ sy'.sends[id] = sy.sends[id] + 1

TimedOutAfterRetries == sy'.result.why = "block timeout after retries"

\* C34 as stated: on a receive tick timeout in phase 2 every inflight entry
\* whose last send is at least 2 s old is resent with retries + 1 and
\* last_sent = now, an entry with retries = 2 included; the session fails on
\* the timeout only if a due entry has retries > 2.
C34_TimeoutResendAbove2 ==
  [][ (InPhase2 /\ plast'.op = "timeout") =>
        /\ TimedOutAfterRetries
             => \E id \in DueAtTick : sy.inflight[id].retries > 2
        /\ \A id \in DueAtTick : sy.inflight[id].retries <= 2 => Resent(id)
    ]_vars

\* C34, amended: on a receive tick timeout in phase 2 the session fails on
\* the timeout exactly when a due entry already has retries >= 2 (an entry
\* with retries = 2 is not resent); otherwise every inflight entry whose last
\* send is at least 2 s old is resent with retries + 1 and last_sent = now,
\* and the other entries are left as they were.
C34_TimeoutResend ==
  [][ (InPhase2 /\ plast'.op = "timeout") =>
        /\ TimedOutAfterRetries
             <=> \E id \in DueAtTick : sy.inflight[id].retries >= 2
        /\ ~TimedOutAfterRetries =>
             /\ \A id \in DueAtTick : Resent(id)
             /\ \A id \in DOMAIN sy.inflight \ DueAtTick :
                  /\ id \in DOMAIN sy'.inflight
                  /\ sy'.inflight[id] = sy.inflight[id]
                  /\ sy'.sends[id] = sy.sends[id]
    ]_vars

\* a tick found an entry due with retries = 2 and the session failed, after
\* an earlier tick had resent an entry
C34_Witness ==
  /\ plast.op = "timeout"
  /\ sy.result.why = "block timeout after retries"
  /\ \E id \in DOMAIN sy.inflight :
       /\ sy.inflight[id].retries = 2
       /\ now - sy.inflight[id].last_sent >= 2
       /\ sy.sends[id] = 3

\* ------------------------------------------------------ tip order properties
StrictlyBetter(new_tip, old) ==
  \/ new_tip.height > old.height
  \/ new_tip.height = old.height /\ new_tip.hash < old.hash

\* C35: the tip only ever improves -- across one ingest call tip.height does
\* not decrease, the tip changes only inside maybe_set_tip, every change is
\* to a strictly better tip (greater height, or equal height and smaller
\* hash), and no id that was the tip becomes the tip again.
C35_TipImproves ==
  [][ last'.op \in { "ingest_block", "ingest_header" } =>
        /\ tip'.height >= tip.height
        /\ tip' # tip => StrictlyBetter(tip', tip)
        /\ tip' = IF mstLog' = <<>> THEN tip ELSE mstLog'[Len(mstLog')].after
        /\ \A i \in 1 .. Len(mstLog') :
             /\ mstLog'[i].before = IF i = 1 THEN tip ELSE mstLog'[i - 1].after
             /\ mstLog'[i].after # mstLog'[i].before =>
                  /\ mstLog'[i].after = ChainTip(mstLog'[i].height, mstLog'[i].hash)
                  /\ StrictlyBetter(mstLog'[i].after, mstLog'[i].before)
                  /\ \A j \in 1 .. i :
                       mstLog'[j].before.hash # mstLog'[i].after.hash
    ]_vars

\* one ingest call moved the tip twice, and one tip replaced another of the
\* same height
C35_Witness ==
  /\ \E i, j \in 1 .. Len(mstLog) :
       /\ i < j
       /\ mstLog[i].after # mstLog[i].before
       /\ mstLog[j].after # mstLog[j].before
  /\ \E id \in DOMAIN hdr :
       id # tip.hash /\ id \in DOMAIN blk /\ hdr[id].height = tip.height

\* the errors an ingest call can return
IngestErrors ==
  { "InvalidPow", "MerkleMismatch", "InvalidTxId", "GenesisIdMismatch",
    "HeaderMismatch", "HeightNotParentPlusOne", "MissingHeader",
    "MissingBlock", "MissingBlockMeta", "Store" }

\* C36: when ingest_block returns an error the call has not moved the tip:
\* the in-memory tip and the persisted tip are what they were before it.
C36_ErrorKeepsTip ==
  [][ (last'.op = "ingest_block" /\ last'.out \in IngestErrors) =>
        /\ tip' = tip
        /\ stip' = stip
    ]_vars

\* ---------------------------------------------------- score bound properties
\* C37: the penalty score is never negative; an unbanned machine has a score
\* below 100; a machine becomes banned exactly when a penalty of the call
\* leaves the score at 100 or more; once banned, the score and the time of
\* its last decay no longer change.
C37_ScoreBounds ==
  [][ /\ pm.penalty_score >= 0 /\ pm'.penalty_score >= 0
      /\ ~is_banned(pm) => pm.penalty_score < 100
      /\ ~is_banned(pm') => pm'.penalty_score < 100
      /\ ~is_banned(pm)
           => ( is_banned(pm')
                  <=> /\ pm'.pen_log # <<>>
                      /\ pm'.penalty_score
                           = Decayed(pm.penalty_score, pm.penalty_last_decay)
                             + PenaltySum(pm'.pen_log)
                      /\ pm'.penalty_score >= 100 )
      /\ is_banned(pm)
           => /\ is_banned(pm')
              /\ pm'.penalty_score = pm.penalty_score
              /\ pm'.penalty_last_decay = pm.penalty_last_decay
              /\ pm'.pen_log = <<>> \/ pm' = pm
    ]_vars

\* a banned machine took a message when a decay step was due and kept its
\* score
C37_Witness ==
  /\ is_banned(pm)
  /\ plast.op = "on_message"
  /\ pm.pen_log = <<>>
  /\ plast.score = pm.penalty_score
  /\ pm.penalty_score >= 100
  /\ now - pm.penalty_last_decay >= 10

\* ------------------------------------------------- slow responder properties
\* C38: a responder that answers every GetBlock it receives with the right
\* BlockFound, the resent ones included, is never punished -- the syncer
\* adds no penalty to the peer and the session does not fail on an
\* unexpected BlockFound, however resends and replies interleave.
C38_SlowNotPunished ==
  /\ pm.penalty_score = 0
  /\ sy.result.why # "unexpected BlockFound (not inflight)"

\* ------------------------------------------------ requested block properties
Downloaded == { sy.downloaded_ids[i] : i \in 1 .. Len(sy.downloaded_ids) }

Pending == { sy.pending[i] : i \in 1 .. Len(sy.pending) }

\* C40: no requested block is lost -- while phase 2 runs, every header id
\* downloaded in phase 1 has its block stored, or is in pending, or is in
\* inflight; when run_syncer_once returns Ok every downloaded id has its
\* block stored.
C40_NoBlockLost ==
  /\ InPhase2
       => \A id \in Downloaded :
            id \in DOMAIN blk \/ id \in Pending \/ id \in DOMAIN sy.inflight
  /\ sy.result = NodeOk
       => \A id \in Downloaded : id \in DOMAIN blk

\* the session returned Ok after more blocks than the window holds, all of
\* them stored
C40_Witness ==
  /\ sy.result = NodeOk
  /\ Len(sy.ingested) > BLOCK_WINDOW
  /\ Downloaded = { sy.ingested[i] : i \in 1 .. Len(sy.ingested) }
  /\ \A id \in Downloaded : id \in DOMAIN blk

\* --------------------------------------------------- termination properties
\* C39: every run of run_syncer_once terminates -- whatever the remote peer
\* sends, for ever if it likes, and whatever it withholds, the session
\* returns Ok or an error sooner or later.
C39_SessionTerminates == <>(sy.result # Running)

====
